---- MODULE Spec2Model ----
(***************************************************************************)
(* genkubessl: the certificate topology and reconciliation engine.         *)
(*                                                                         *)
(* A Go string is modelled as a sequence of tokens.  A token is either one *)
(* of the separator characters "," "/" ":" or an opaque run of characters  *)
(* that contains no separator, so strings.Split, concatenation and string  *)
(* equality behave on token sequences as they do on the Go strings.        *)
(* A private key is named by the process that drew it and its number in    *)
(* that process; a certificate records the public key it binds and the     *)
(* public key of its signer.  A file is a sequence of PEM blocks.          *)
(***************************************************************************)
EXTENDS Integers, Sequences, FiniteSets, TLC

VARIABLES
    args,               \* ClusterConfig: the five command line strings
    OverWrite,          \* kubecerts/kubekeys OverWrite policy
    ForceRegen,         \* kubecerts/kubekeys ForceRegen policy
    ord,                \* iteration order the Go maps show in this process
    store,              \* the storage at the read location: path -> file content
    writeStore,         \* the storage at the write location, when it is another one
    pc,                 \* position of main
    run,                \* number of the current process invocation
    resolveErr,         \* error value returned by Execute
    kubeHosts,          \* topology returned by getKubehosts
    kubeCertTemplates,  \* kubecerts.kubeCertTemplates
    AllKubeCerts,       \* kubecerts.AllKubeCerts
    KubeCAMap,          \* kubecerts.KubeCAMap
    idx,                \* position of the range loop of CheckCreateCerts
    certsChanged,       \* kubecerts.Changed
    keysChanged,        \* kubekeys.Changed
    AllKubeKeys,        \* kubekeys.AllKubeKeys
    reported,           \* the GLOBAL_CHANGED line printed by main
    wlog,               \* paths written by this process, in order
    rlog,               \* paths read by this process, in order
    genCalls,           \* descriptors handed to genCrt by this process
    keyGens,            \* private keys generated by this process
    storeAtStart,       \* content of the storage when this process started
    faulted,            \* the environment has failed a key generation or a write
    input,              \* arguments of a function called on its own
    output              \* the values that call returned

vars == <<args, OverWrite, ForceRegen, ord, store, writeStore, pc, run, resolveErr,
          kubeHosts, kubeCertTemplates, AllKubeCerts, KubeCAMap, idx,
          certsChanged, keysChanged, AllKubeKeys, reported, wlog, rlog,
          genCalls, keyGens, storeAtStart, faulted, input, output>>

(***************************************************************************)
(* Bounds of the model.                                                    *)
(***************************************************************************)
MaxRuns == 2       \* process invocations in a row over the same storage
MaxArgLen == 3     \* tokens of the argument the resolver is explored on
MaxSliceLen == 3   \* elements of a slice UniqueStringSliceCmp is explored on
MaxExtras == 2     \* extra names of a node makeSans is explored on
MaxNames == 2      \* entries of a name list cmpWithDefinition is explored on
MaxDepth == 2      \* directories between the root and a file StoreFile.Write is explored on

NoCall == [fn |-> ""]    \* no function is called on its own

(***************************************************************************)
(* Strings.                                                                *)
(***************************************************************************)
EmptyStr == <<>>

Str(tok) == <<tok>>

\* positions of s that hold the token sep
SepPositions(s, sep) == {i \in 1..Len(s) : s[i] = sep}

RECURSIVE Split(_, _)
\* strings.Split(s, sep) for a one-character separator
Split(s, sep) ==
    IF SepPositions(s, sep) = {}
    THEN <<s>>
    ELSE LET i == CHOOSE p \in SepPositions(s, sep) :
                     \A q \in SepPositions(s, sep) : p <= q
         IN  <<SubSeq(s, 1, i - 1)>> \o Split(SubSeq(s, i + 1, Len(s)), sep)

RECURSIVE SetToSeq(_)
\* the elements of a finite set in one fixed order
SetToSeq(S) ==
    IF S = {} THEN <<>>
    ELSE LET x == CHOOSE y \in S : TRUE
         IN  <<x>> \o SetToSeq(S \ {x})

Reverse(s) == [i \in 1..Len(s) |-> s[Len(s) + 1 - i]]

\* the order in which a range loop visits the keys of a Go map: the language
\* leaves it open, the model draws one of two orders per process
MapOrder(S, o) == IF o = "fwd" THEN SetToSeq(S) ELSE Reverse(SetToSeq(S))

Range(s) == {s[i] : i \in 1..Len(s)}

RECURSIVE Flatten(_)
Flatten(ss) == IF ss = <<>> THEN <<>> ELSE Head(ss) \o Flatten(Tail(ss))

RECURSIVE CollapseSlashes(_)
\* p with every run of "/" made one "/"
CollapseSlashes(p) ==
    IF Len(p) < 2 THEN p
    ELSE IF p[1] = "/" /\ p[2] = "/" THEN CollapseSlashes(Tail(p))
    ELSE <<p[1]>> \o CollapseSlashes(Tail(p))

\* p without the "/" that ends it
DropTrailingSlash(p) ==
    IF Len(p) > 1 /\ p[Len(p)] = "/" THEN SubSeq(p, 1, Len(p) - 1) ELSE p

\* filepath.Clean on paths whose names are neither "." nor ".."
Clean(p) == DropTrailingSlash(CollapseSlashes(p))

RECURSIVE JoinElems(_)
\* the elements that are not empty, a "/" between each two
JoinElems(elems) ==
    IF elems = <<>> THEN EmptyStr
    ELSE IF Head(elems) = EmptyStr THEN JoinElems(Tail(elems))
    ELSE IF JoinElems(Tail(elems)) = EmptyStr THEN Head(elems)
    ELSE Head(elems) \o <<"/">> \o JoinElems(Tail(elems))

\* filepath.Join
filepathJoin(elems) == Clean(JoinElems(elems))

(***************************************************************************)
(* Topology Resolver.                                                      *)
(***************************************************************************)
NoHosts == <<>>     \* a nil or empty Go map

RECURSIVE parsesansLoop(_, _)
\* the range loop of parsesans over hostslist, starting from hostmap
parsesansLoop(hostslist, hostmap) ==
    IF hostslist = <<>> THEN [err |-> FALSE, hostmap |-> hostmap]
    ELSE LET host == Head(hostslist)
             extrasans == Split(host, "/")
             node == extrasans[1]
         IN  IF Len(extrasans) > 2
             THEN [err |-> TRUE, hostmap |-> NoHosts]
             ELSE IF Len(extrasans) > 1
             THEN LET extras == Split(extrasans[2], ":")
                  IN  IF \E i \in 1..Len(extras) : extras[i] = EmptyStr
                      THEN [err |-> TRUE, hostmap |-> NoHosts]
                      ELSE parsesansLoop(Tail(hostslist),
                                         (node :> extras) @@ hostmap)
             ELSE parsesansLoop(Tail(hostslist), (node :> <<>>) @@ hostmap)

\* variant of parsesans without the test for the empty argument
parsesans_AcceptsEmpty(hosts, single) ==
    IF single /\ Len(Split(hosts, ",")) > 1
    THEN [err |-> TRUE, hostmap |-> NoHosts]
    ELSE parsesansLoop(Split(hosts, ","), NoHosts)

parsesans(hosts, single) ==
    IF hosts = EmptyStr THEN [err |-> TRUE, hostmap |-> NoHosts]
    ELSE LET hostslist == Split(hosts, ",")
         IN  IF single /\ Len(hostslist) > 1
             THEN [err |-> TRUE, hostmap |-> NoHosts]
             ELSE parsesansLoop(hostslist, NoHosts)

NoTopology == <<>>

getKubehosts(apisans, masters, workers, etcd) ==
    LET api == parsesans(apisans, FALSE)
        mst == parsesans(masters, FALSE)
        wrk == parsesans(workers, FALSE)
        etc == parsesans(etcd, FALSE)
    IN  IF api.err \/ mst.err \/ wrk.err
        THEN [err |-> TRUE, cluster |-> NoTopology]
        ELSE [err |-> FALSE,
              cluster |-> [role \in {"apisans", "masters", "workers", "etcd"} |->
                              CASE role = "apisans" -> api.hostmap
                                [] role = "masters" -> mst.hostmap
                                [] role = "workers" -> wrk.hostmap
                                [] OTHER -> IF ~etc.err THEN etc.hostmap
                                                        ELSE mst.hostmap]]

(***************************************************************************)
(* Certificate Template Registry.                                          *)
(***************************************************************************)
NodeName == "{{.NodeName}}"     \* the placeholder of the naming patterns

GlobalPath == "global"
NodesPath == "nodes"

defaultNodeSans == <<Str("127.0.0.1"), Str("localhost"), <<":", ":", "1">>>>

PkiDir == <<"/", "etc", "/", "kubernetes", "/", "pki", "/">>
EtcdDir == PkiDir \o <<"etcd", "/">>
KubeletDir == <<"/", "var", "/", "lib", "/", "kubelet", "/", "pki", "/">>

CaPath == PkiDir \o <<"ca">>
EtcdCaPath == EtcdDir \o <<"ca">>
FrontProxyCaPath == PkiDir \o <<"front-proxy-ca">>
UsersPath == PkiDir \o <<"users", "/">>

KubeCertTemplate(path, parent, nodes, cn, org, usages, nodeSans, apiSans, extraSans) ==
    [path |-> path, usages |-> usages, parent |-> parent, nodes |-> nodes,
     nodeSans |-> nodeSans, apiSans |-> apiSans, extraSans |-> extraSans,
     commonnameTemplate |-> cn, organisationTemplate |-> org]

ApiExtraSans ==
    <<Str("kubernetes"), Str("kubernetes.default"), Str("kubernetes.default.svc"),
      Str("kubernetes.default.svc.cluster.local")>>

\* the static catalog: certificate authorities first
StaticTemplates == <<
    KubeCertTemplate(CaPath, EmptyStr, <<>>, Str("kubernetes"), EmptyStr,
                     <<>>, FALSE, FALSE, <<>>),
    KubeCertTemplate(EtcdCaPath, EmptyStr, <<>>, Str("etcd-ca"), EmptyStr,
                     <<>>, FALSE, FALSE, <<>>),
    KubeCertTemplate(FrontProxyCaPath, EmptyStr, <<>>, Str("front-proxy-ca"), EmptyStr,
                     <<>>, FALSE, FALSE, <<>>),
    KubeCertTemplate(PkiDir \o <<"apiserver">>, CaPath, <<"masters">>,
                     Str("kube-apiserver"), EmptyStr,
                     <<"ServerAuth">>, TRUE, TRUE, ApiExtraSans),
    KubeCertTemplate(PkiDir \o <<"apiserver-kubelet-client">>, CaPath,
                     <<"masters">>, Str("kube-apiserver-kubelet-client"),
                     <<"system", ":", "masters">>, <<"ClientAuth">>, FALSE, FALSE, <<>>),
    KubeCertTemplate(PkiDir \o <<"admin">>, CaPath, <<>>,
                     Str("kubernetes-admin"), <<"system", ":", "masters">>,
                     <<"ClientAuth">>, FALSE, FALSE, <<>>),
    KubeCertTemplate(PkiDir \o <<"controller-manager">>, CaPath,
                     <<"masters">>, <<"system", ":", "kube-controller-manager">>, EmptyStr,
                     <<"ClientAuth">>, FALSE, FALSE, <<>>),
    KubeCertTemplate(PkiDir \o <<"kubelet">>, CaPath,
                     <<"masters", "workers">>, <<"system", ":", "node", ":", NodeName>>,
                     <<"system", ":", "nodes">>, <<"ClientAuth">>, FALSE, FALSE, <<>>),
    KubeCertTemplate(KubeletDir \o <<"kubelet">>, CaPath,
                     <<"masters", "workers">>, <<NodeName>>,
                     <<"system", ":", "nodes">>, <<"ServerAuth">>, TRUE, FALSE, <<>>),
    KubeCertTemplate(PkiDir \o <<"scheduler">>, CaPath,
                     <<"masters">>, <<"system", ":", "kube-scheduler">>, EmptyStr,
                     <<"ClientAuth">>, FALSE, FALSE, <<>>),
    KubeCertTemplate(PkiDir \o <<"kube-proxy">>, CaPath,
                     <<"masters", "workers">>, <<"system", ":", "kube-proxy">>,
                     <<"system", ":", "node-proxier">>, <<"ClientAuth">>, FALSE, FALSE, <<>>),
    KubeCertTemplate(PkiDir \o <<"front-proxy-client">>, FrontProxyCaPath,
                     <<"masters", "workers">>, Str("front-proxy-client"), EmptyStr,
                     <<"ClientAuth">>, FALSE, FALSE, <<>>),
    KubeCertTemplate(EtcdDir \o <<"server">>, EtcdCaPath,
                     <<"etcd">>, <<NodeName>>, EmptyStr,
                     <<"ServerAuth">>, TRUE, FALSE, <<>>),
    KubeCertTemplate(EtcdDir \o <<"peer">>, EtcdCaPath,
                     <<"etcd">>, <<NodeName>>, EmptyStr,
                     <<"ServerAuth", "ClientAuth">>, TRUE, FALSE, <<>>),
    KubeCertTemplate(EtcdDir \o <<"etcd-healthcheck-client">>, EtcdCaPath,
                     <<"masters">>, Str("kube-etcd-healthcheck-client"),
                     <<"system", ":", "masters">>, <<"ClientAuth">>, FALSE, FALSE, <<>>),
    KubeCertTemplate(PkiDir \o <<"apiserver-etcd-client">>, EtcdCaPath,
                     <<"masters">>, Str("kube-apiserver-etcd-client"),
                     <<"system", ":", "masters">>, <<"ClientAuth">>, FALSE, FALSE, <<>>) >>

RECURSIVE getUsersLoop_OwnAuthority(_, _)
\* variant of getUsersLoop that names an authority of the users directory
getUsersLoop_OwnAuthority(usergroups, tpls) ==
    IF usergroups = <<>> THEN tpls
    ELSE IF Len(Split(Head(usergroups), "/")) < 2
    THEN getUsersLoop_OwnAuthority(Tail(usergroups), tpls)
    ELSE getUsersLoop_OwnAuthority(Tail(usergroups),
            Append(tpls,
                KubeCertTemplate(UsersPath \o Split(Head(usergroups), "/")[1],
                                 UsersPath \o <<"ca">>, <<>>,
                                 Split(Head(usergroups), "/")[1],
                                 Split(Head(usergroups), "/")[2],
                                 <<"ClientAuth">>, FALSE, FALSE, <<>>)))

RECURSIVE getUsersLoop(_, _)
\* the range loop of getUsers over usergroups, appending to the catalog tpls
getUsersLoop(usergroups, tpls) ==
    IF usergroups = <<>> THEN tpls
    ELSE LET user_gr == Split(Head(usergroups), "/")
         IN  IF Len(user_gr) < 2
             THEN getUsersLoop(Tail(usergroups), tpls)
             ELSE getUsersLoop(Tail(usergroups),
                    Append(tpls,
                        KubeCertTemplate(UsersPath \o user_gr[1], CaPath, <<>>,
                                         user_gr[1], user_gr[2],
                                         <<"ClientAuth">>, FALSE, FALSE, <<>>)))

getUsers(users, tpls) == getUsersLoop(Split(users, ","), tpls)

(***************************************************************************)
(* Identity Materializer.                                                  *)
(***************************************************************************)
\* text/template on a pattern: the placeholder becomes the node name
renderStringTemplate(templateString, node) ==
    Flatten([i \in 1..Len(templateString) |->
                IF templateString[i] = NodeName THEN node
                ELSE <<templateString[i]>>])

HostsOf(hosts, role) == IF role \in DOMAIN hosts THEN hosts[role] ELSE NoHosts

\* variant of ExtrasOf that takes the extra names the node has under any role
ExtrasOf_AnyRole(hosts, role, node) ==
    Flatten([k \in 1..Len(SetToSeq(DOMAIN hosts)) |->
                IF node \in DOMAIN hosts[SetToSeq(DOMAIN hosts)[k]]
                THEN hosts[SetToSeq(DOMAIN hosts)[k]][node] ELSE <<>>])

ExtrasOf(hosts, role, node) ==
    IF node \in DOMAIN HostsOf(hosts, role) THEN HostsOf(hosts, role)[node] ELSE <<>>

makeSans(hosts, nodeType, node, apiSans, nodeSans, extraSans, o) ==
    LET apiMap == HostsOf(hosts, "apisans")
        fromApi == IF apiSans
                   THEN DOMAIN apiMap \cup
                        UNION {Range(apiMap[h]) : h \in DOMAIN apiMap}
                   ELSE {}
        fromNode == IF nodeSans
                    THEN {node} \cup Range(defaultNodeSans)
                         \cup Range(ExtrasOf(hosts, nodeType, node))
                    ELSE {}
        sansMAP == fromApi \cup fromNode \cup Range(extraSans)
    IN  MapOrder(sansMAP, o)

NilCert == [nil |-> TRUE]
NilKey == [nil |-> TRUE]
NilPEM == <<>>

MakeKubeCertFromTemplate(hosts, template, tidx, nodetype, node, o) ==
    LET rendered == renderStringTemplate(template.organisationTemplate, node)
    IN  [cert |-> NilCert, certPEM |-> NilPEM, key |-> NilKey, keyPEM |-> NilPEM,
         node |-> node,
         commonName |-> renderStringTemplate(template.commonnameTemplate, node),
         organisation |-> IF rendered = EmptyStr THEN <<>> ELSE <<rendered>>,
         sans |-> makeSans(hosts, nodetype, node, template.apiSans,
                           template.nodeSans, template.extraSans, o),
         templateIdx |-> tidx,
         failed |-> "",
         outcome |-> "",
         readPath |-> IF node = EmptyStr
                      THEN filepathJoin(<<Str(GlobalPath), template.path>>)
                      ELSE filepathJoin(<<Str(NodesPath), node, template.path>>),
         writePath |-> IF node = EmptyStr
                       THEN filepathJoin(<<Str(GlobalPath), template.path>>)
                       ELSE filepathJoin(<<Str(NodesPath), node, template.path>>)]

\* the descriptors one template yields, in the order they are appended
TemplateCerts(hosts, template, tidx, o) ==
    IF Len(template.nodes) < 1
    THEN <<MakeKubeCertFromTemplate(hosts, template, tidx, "", EmptyStr, o)>>
    ELSE Flatten([n \in 1..Len(template.nodes) |->
            LET nodetype == template.nodes[n]
                nodes == MapOrder(DOMAIN HostsOf(hosts, nodetype), o)
            IN  [k \in 1..Len(nodes) |->
                    MakeKubeCertFromTemplate(hosts, template, tidx, nodetype,
                                             nodes[k], o)]])

\* variant of LastAppended that takes the length for the last index
LastAppended_Next(all) == Len(all) + 1

\* the index KubeCAMap keeps for a template appended when the list is all
LastAppended(all) == Len(all)

\* the end of one iteration of RenderCertTemplates: all is AllKubeCerts
\* after the appends, camap is KubeCAMap before the iteration
RecordAuthority(template, all, camap) ==
    [all |-> all,
     camap |-> IF template.parent = EmptyStr
               THEN (template.path :> LastAppended(all)) @@ camap
               ELSE camap]

RECURSIVE RenderCertTemplatesLoop(_, _, _, _, _)
\* the range loop of RenderCertTemplates from template tidx on
RenderCertTemplatesLoop(hosts, tpls, tidx, acc, o) ==
    IF tidx > Len(tpls) THEN acc
    ELSE RenderCertTemplatesLoop(hosts, tpls, tidx + 1,
            RecordAuthority(tpls[tidx],
                            acc.all \o TemplateCerts(hosts, tpls[tidx], tidx, o),
                            acc.camap), o)

RenderCertTemplates(hosts, tpls, o) ==
    RenderCertTemplatesLoop(hosts, tpls, 1, [all |-> <<>>, camap |-> <<>>], o)

(***************************************************************************)
(* util and sslutil.                                                       *)
(***************************************************************************)
RECURSIVE UniqueStringSliceCmpLoop(_, _, _, _)
\* the for loop of UniqueStringSliceCmp from position i with map cmpMap;
\* TRUE when an error is returned
UniqueStringSliceCmpLoop(src, dst, i, cmpMap) ==
    IF i > Len(src) THEN Cardinality(cmpMap) # Len(src)
    ELSE LET m == cmpMap \cup {src[i], dst[i]}
         IN  IF Cardinality(m) > Len(src) THEN TRUE
             ELSE UniqueStringSliceCmpLoop(src, dst, i + 1, m)

\* variant of UniqueStringSliceCmp that compares position by position
UniqueStringSliceCmp_Positional(src, dst) ==
    Len(src) # Len(dst) \/ \E i \in 1..Len(src) : src[i] # dst[i]

\* TRUE when UniqueStringSliceCmp returns an error
UniqueStringSliceCmp(src, dst) ==
    IF Len(src) # Len(dst) THEN TRUE
    ELSE UniqueStringSliceCmpLoop(src, dst, 1, {})

\* net.ParseIP followed by IP.String on the address literals of the model:
\* the textual form an address is given back in
IPLiterals ==
    (Str("127.0.0.1") :> Str("127.0.0.1")) @@
    (Str("10.0.0.1") :> Str("10.0.0.1")) @@
    (<<":", ":", "1">> :> <<":", ":", "1">>) @@
    (<<"FE80", ":", ":", "1">> :> <<"fe80", ":", ":", "1">>)

ParseIP(name) ==
    IF name \in DOMAIN IPLiterals THEN [ok |-> TRUE, ip |-> IPLiterals[name]]
    ELSE [ok |-> FALSE, ip |-> EmptyStr]

RECURSIVE Uniq(_, _)
\* the elements of names not seen before, in their order
Uniq(names, seen) ==
    IF names = <<>> THEN <<>>
    ELSE IF Head(names) \in seen THEN Uniq(Tail(names), seen)
    ELSE <<Head(names)>> \o Uniq(Tail(names), seen \cup {Head(names)})

NewCertConfig(validity, commonname, organization, altnames) ==
    LET uniq == Uniq(altnames, {})
        netips == SelectSeq(uniq, LAMBDA n : ParseIP(n).ok)
        dnsnames == SelectSeq(uniq, LAMBDA n : ~ParseIP(n).ok)
    IN  [Validity |-> validity,
         CommonName |-> commonname,
         Organization |-> IF Len(organization) > 0 /\ organization[1] # EmptyStr
                          THEN organization ELSE <<>>,
         IPs |-> [i \in 1..Len(netips) |-> ParseIP(netips[i]).ip],
         DNSNames |-> dnsnames,
         Usages |-> <<>>]

\* the private key number n drawn by process r (r = 0: found in the storage)
PrivateKey(r, n) == [priv |-> <<r, n>>]

PublicKey(priv) == IF "priv" \in DOMAIN priv THEN [pub |-> priv.priv] ELSE NilKey

\* time is counted in days
Duration365d == 365

\* the validity a stored certificate must have left; no function reads it
CheckCertMinValid == 10

\* SelfSignedCaKey with the private key NewPrivateKey hands out (NilKey when
\* key generation failed); daysLeft is NotAfter counted from the day a
\* process looks at the certificate
SelfSignedCaKey(cfg, newKey) ==
    IF newKey = NilKey THEN [err |-> TRUE, cert |-> NilCert, key |-> NilKey]
    ELSE [err |-> FALSE,
          cert |-> [nil |-> FALSE, cn |-> cfg.CommonName, org |-> cfg.Organization,
                    dns |-> <<>>, ips |-> <<>>, pub |-> PublicKey(newKey),
                    signer |-> PublicKey(newKey), isCA |-> TRUE, usages |-> <<>>,
                    daysLeft |-> Duration365d * 10],
          key |-> newKey]

\* SelfSignedCertKey with the private key NewPrivateKey hands out.  The
\* certificate is signed with caKey whether or not it is the key of
\* caCertificate; a library release that refuses such a key makes genCrt
\* return an error, which is the step CertGenFailed
SelfSignedCertKey(cfg, caCertificate, caKey, newKey) ==
    IF newKey = NilKey \/ caKey = NilKey \/ caCertificate = NilCert
    THEN [err |-> TRUE, cert |-> NilCert, key |-> NilKey]
    ELSE [err |-> FALSE,
          cert |-> [nil |-> FALSE, cn |-> cfg.CommonName, org |-> cfg.Organization,
                    dns |-> cfg.DNSNames, ips |-> cfg.IPs, pub |-> PublicKey(newKey),
                    signer |-> PublicKey(caKey), isCA |-> FALSE, usages |-> cfg.Usages,
                    daysLeft |-> Duration365d * 10],
          key |-> newKey]

EncodeCertPEM(cert) == <<[type |-> "CERTIFICATE", der |-> cert]>>

MarshalPrivateKeyToPEM(key) ==
    IF key = NilKey THEN [err |-> TRUE, pem |-> NilPEM]
    ELSE [err |-> FALSE, pem |-> <<[type |-> "RSA PRIVATE KEY", der |-> [key |-> key]]>>]

EncodePublicKeyPEM(pub) ==
    IF pub = NilKey THEN [err |-> TRUE, pem |-> <<>>]
    ELSE [err |-> FALSE, pem |-> <<[type |-> "PUBLIC KEY", der |-> [pub |-> pub]]>>]

IsCertDER(der) == "nil" \in DOMAIN der
IsKeyDER(der) == "key" \in DOMAIN der

PrivateKeyBlockTypes == {"EC PRIVATE KEY", "RSA PRIVATE KEY", "PRIVATE KEY"}

ParsePrivateKeyPEM(keyData) ==
    LET keys == SelectSeq(keyData,
                    LAMBDA b : b.type \in PrivateKeyBlockTypes /\ IsKeyDER(b.der))
    IN  IF keys = <<>> THEN [err |-> TRUE, key |-> NilKey]
        ELSE [err |-> FALSE, key |-> keys[1].der.key]

LoadCrtAndKeyFromPEM(certPEM, keyPEM) ==
    LET blocks == SelectSeq(certPEM, LAMBDA b : b.type = "CERTIFICATE")
        parsed == ParsePrivateKeyPEM(keyPEM)
        bad == [err |-> TRUE, crt |-> NilCert, key |-> NilKey]
    IN  IF blocks = <<>> \/ \E i \in 1..Len(blocks) : ~IsCertDER(blocks[i].der) THEN bad
        ELSE IF Len(blocks) # 1 THEN bad
        ELSE IF parsed.err THEN bad
        ELSE [err |-> FALSE, crt |-> blocks[1].der, key |-> parsed.key]

\* x509 Certificate.CheckSignature: the signature on signed verifies with the
\* public key of holder
CheckSignature(holder, signed) == signed.signer = holder.pub

\* TRUE when VerifyCrtSignature returns an error: both checks are made on
\* crt, the copy that carries the public key of key is left unused
VerifyCrtSignature(crt, key) ==
    IF ~CheckSignature(crt, crt) THEN TRUE
    ELSE ~CheckSignature(crt, crt)

\* TRUE when crt.CheckSignatureFrom(parent) returns an error
CheckSignatureFrom(crt, parent) == ~(parent.isCA /\ CheckSignature(parent, crt))

GetAllSans(crt) == crt.dns \o crt.ips

(***************************************************************************)
(* Certificate Generator and Reconciliation Engine.                        *)
(***************************************************************************)
\* the index KubeCAMap[parent] (a missing key reads as the zero value, the
\* first descriptor)
ParentIdx(camap, parent) == IF parent \in DOMAIN camap THEN camap[parent] ELSE 1

\* variant of cmpWithDefinition that leaves the common name out
cmpWithDefinition_NoCommonName(crt, def) ==
    IF UniqueStringSliceCmp(crt.org, def.organisation) THEN TRUE
    ELSE UniqueStringSliceCmp(GetAllSans(crt), def.sans)

\* TRUE when cmpWithDefinition returns an error
cmpWithDefinition(crt, def) ==
    IF crt.cn # def.commonName THEN TRUE
    ELSE IF UniqueStringSliceCmp(crt.org, def.organisation) THEN TRUE
    ELSE UniqueStringSliceCmp(GetAllSans(crt), def.sans)

\* the two branches of genCrt
SignWith(crtConf, parent, signer, newKey) ==
    IF parent = EmptyStr
    THEN SelfSignedCaKey(crtConf, newKey)
    ELSE SelfSignedCertKey(crtConf, signer.cert, signer.key, newKey)

\* genCrt with the private key NewPrivateKey hands out
genCrt(crt, all, camap, tpls, newKey) ==
    SignWith(NewCertConfig(0, crt.commonName, crt.organisation, crt.sans),
             tpls[crt.templateIdx].parent,
             all[ParentIdx(camap, tpls[crt.templateIdx].parent)],
             newKey)

\* genPEM of kubecerts on the descriptor crt with the result g of genCrt
genPEM(crt, g) ==
    [crt EXCEPT !.cert = g.cert, !.key = g.key,
                !.certPEM = EncodeCertPEM(g.cert),
                !.keyPEM = MarshalPrivateKeyToPEM(g.key).pem]

Read(st, path) ==
    IF path \in DOMAIN st THEN [err |-> FALSE, content |-> st[path]]
    ELSE [err |-> TRUE, content |-> NilPEM]

Write(st, path, content) == (path :> content) @@ st

\* main: without -src the ReadDriver is given the location of the
\* WriteDriver, and the two are one storage
SameLocation == [same |-> TRUE, files |-> <<>>]

\* the read location after a write of the WriteDriver that turns the
\* storage st into stWritten
AfterWriteSrc(st, d, stWritten) == IF d.same THEN stWritten ELSE st

\* the write location after a write that turns its files into dWritten
AfterWriteDst(d, dWritten) == IF d.same THEN d ELSE [d EXCEPT !.files = dWritten]

CrtFile(path) == path \o <<".crt">>
KeyFile(path) == path \o <<".key">>
PubFile(path) == path \o <<".pub">>

\* what a descriptor is left with when the signature check follows a nil
\* parent certificate: the process panics
NilDereference == "nil pointer dereference"

\* the steps of the loop body of CheckCreateCerts, in the order of the code
MarkForceRegen(crt, force) ==
    IF force THEN [crt EXCEPT !.failed = "ForceRegen"] ELSE crt

LoadedCertPEM(crt, r) ==
    [crt EXCEPT !.certPEM = r.content,
                !.failed = IF r.err THEN "error loading certificate" ELSE ""]

ReadCertPEM(crt, st) ==
    IF crt.failed = "" THEN LoadedCertPEM(crt, Read(st, CrtFile(crt.readPath)))
    ELSE crt

LoadedKeyPEM(crt, r) ==
    [crt EXCEPT !.keyPEM = r.content,
                !.failed = IF r.err THEN "error loading certificate" ELSE ""]

\* variant of ReadKeyPEM that reads the key whatever the certificate read gave
ReadKeyPEM_Always(crt, st) == LoadedKeyPEM(crt, Read(st, KeyFile(crt.readPath)))

ReadKeyPEM(crt, st) ==
    IF crt.failed = "" THEN LoadedKeyPEM(crt, Read(st, KeyFile(crt.readPath)))
    ELSE crt

Parsed(crt, l) ==
    [crt EXCEPT !.cert = l.crt, !.key = l.key,
                !.failed = IF l.err THEN "error loading cert or key from PEM format"
                           ELSE ""]

ParsePEM(crt) ==
    IF crt.failed = "" THEN Parsed(crt, LoadCrtAndKeyFromPEM(crt.certPEM, crt.keyPEM))
    ELSE crt

CheckSelfSigned(crt, parent) ==
    IF crt.failed = "" /\ parent = EmptyStr
    THEN [crt EXCEPT !.failed = IF VerifyCrtSignature(crt.cert, crt.key)
                                THEN "error verifying cert signature" ELSE ""]
    ELSE crt

CheckParentSigned(crt, parent, parentCert) ==
    IF crt.failed = "" /\ parent # EmptyStr
    THEN [crt EXCEPT !.failed = IF parentCert = NilCert THEN NilDereference
                                ELSE IF CheckSignatureFrom(crt.cert, parentCert)
                                THEN "cert not emitted by parent CA" ELSE ""]
    ELSE crt

CheckDefinition(crt) ==
    IF crt.failed = ""
    THEN [crt EXCEPT !.failed = IF cmpWithDefinition(crt.cert, crt)
                                THEN "cert not emitted according to definition"
                                ELSE ""]
    ELSE crt

\* the validation half of one iteration of the loop of CheckCreateCerts:
\* the descriptor as the checks leave it
Validate(crt, all, camap, tpls, st, force) ==
    CheckDefinition(
      CheckParentSigned(
        CheckSelfSigned(
          ParsePEM(ReadKeyPEM(ReadCertPEM(MarkForceRegen(crt, force), st), st)),
          tpls[crt.templateIdx].parent),
        tpls[crt.templateIdx].parent,
        all[ParentIdx(camap, tpls[crt.templateIdx].parent)].cert))

\* the storage reads Validate performs, in order
ValidateReads(crt, st, force) ==
    IF force THEN <<>>
    ELSE IF Read(st, CrtFile(crt.readPath)).err THEN <<CrtFile(crt.readPath)>>
    ELSE <<CrtFile(crt.readPath), KeyFile(crt.readPath)>>

\* variant of MustRegen that regenerates after a failed check whatever
\* OverWrite says
MustRegen_AnyFailure(failed, force, overwrite) == force \/ failed # ""

\* variant of MustRegen that regenerates under OverWrite whatever the checks
\* found
MustRegen_Overwrite(failed, force, overwrite) == force \/ overwrite

\* variant of MustRegen that asks for OverWrite under ForceRegen as well
MustRegen_NoForce(failed, force, overwrite) == failed # "" /\ overwrite

\* the policy decision of CheckCreateCerts and of CheckCreateKeys
MustRegen(failed, force, overwrite) == force \/ (failed # "" /\ overwrite)

\* the storage after the writes of writeCerts, certificate first; n of them
\* succeed
writeCerts(st, crt, n) ==
    CASE n = 0 -> st
      [] n = 1 -> Write(st, CrtFile(crt.writePath), crt.certPEM)
      [] OTHER -> Write(Write(st, CrtFile(crt.writePath), crt.certPEM),
                        KeyFile(crt.writePath), crt.keyPEM)

\* the paths writeCerts wrote when n writes succeed
writeCertsLog(crt, n) ==
    SubSeq(<<CrtFile(crt.writePath), KeyFile(crt.writePath)>>, 1, n)

(***************************************************************************)
(* kubekeys.                                                               *)
(***************************************************************************)
SaPath == PkiDir \o <<"sa">>

KubeKeyTemplates == <<[path |-> SaPath, nodes |-> <<>>]>>

MakeKeyFromTemplate(tpl, tidx) ==
    [key |-> NilKey, keyPrivPEM |-> NilPEM, keyPubPEM |-> NilPEM,
     templateIdx |-> tidx, failed |-> "", outcome |-> "",
     readPath |-> filepathJoin(<<Str(GlobalPath), tpl.path>>),
     writePath |-> filepathJoin(<<Str(GlobalPath), tpl.path>>)]

renderKeys(allKeys) ==
    allKeys \o [i \in 1..Len(KubeKeyTemplates) |->
                    MakeKeyFromTemplate(KubeKeyTemplates[i], i)]

\* the steps of the loop body of CheckCreateKeys, in the order of the code
LoadedPrivPEM(k, r) ==
    [k EXCEPT !.keyPrivPEM = r.content,
              !.failed = IF r.err THEN "error loading public key" ELSE ""]

ReadPrivPEM(k, st) ==
    IF k.failed = "" THEN LoadedPrivPEM(k, Read(st, KeyFile(k.readPath))) ELSE k

LoadedPubPEM(k, r) ==
    [k EXCEPT !.keyPubPEM = r.content,
              !.failed = IF r.err THEN "error private key" ELSE ""]

ReadPubPEM(k, st) ==
    IF k.failed = "" THEN LoadedPubPEM(k, Read(st, PubFile(k.readPath))) ELSE k

ParsedPriv(k, p) ==
    [k EXCEPT !.key = p.key,
              !.failed = IF p.err THEN "error private key from pem" ELSE ""]

ParsePriv(k) ==
    IF k.failed = "" THEN ParsedPriv(k, ParsePrivateKeyPEM(k.keyPrivPEM)) ELSE k

\* variant of CrossCheck that compares nothing
CrossCheck_Skipped(k) == k

CrossCheck(k) ==
    IF k.failed = ""
    THEN [k EXCEPT !.failed =
              IF EncodePublicKeyPEM(PublicKey(k.key)).pem # k.keyPubPEM
              THEN "error public and private keys do not match" ELSE ""]
    ELSE k

\* the validation half of the loop body of CheckCreateKeys
ValidateKey(k, st, force) ==
    CrossCheck(ParsePriv(ReadPubPEM(ReadPrivPEM(MarkForceRegen(k, force), st), st)))

\* the storage reads ValidateKey performs, in order
ValidateKeyReads(k, st, force) ==
    IF force THEN <<>>
    ELSE IF Read(st, KeyFile(k.readPath)).err THEN <<KeyFile(k.readPath)>>
    ELSE <<KeyFile(k.readPath), PubFile(k.readPath)>>

\* genKey followed by genPEM of kubekeys, with the key NewPrivateKey hands
\* out: genKey drops the error, the encoders are given the nil key
genKeyPEM(k, newKey) ==
    [k EXCEPT !.key = newKey,
              !.keyPubPEM = EncodePublicKeyPEM(PublicKey(newKey)).pem,
              !.keyPrivPEM = MarshalPrivateKeyToPEM(newKey).pem]

\* the storage after the writes of kubekeys.writeCerts, public key first;
\* n of them succeed
writeKeys(st, k, n) ==
    CASE n = 0 -> st
      [] n = 1 -> Write(st, PubFile(k.writePath), k.keyPubPEM)
      [] OTHER -> Write(Write(st, PubFile(k.writePath), k.keyPubPEM),
                        KeyFile(k.writePath), k.keyPrivPEM)

writeKeysLog(k, n) ==
    SubSeq(<<PubFile(k.writePath), KeyFile(k.writePath)>>, 1, n)

(***************************************************************************)
(* The process: main, Execute, CheckCreateCerts, CheckCreateKeys.          *)
(***************************************************************************)
Resolved == getKubehosts(args.apisans, args.masters, args.workers, args.etcd)

\* Execute after a successful getKubehosts: getUsers, RenderCertTemplates
Rendered(tpls, hosts, o) ==
    [tpls |-> tpls, r |-> RenderCertTemplates(hosts, tpls, o)]

\* Execute up to the call of CheckCreateCerts; main ignores the error
\* Execute returns and goes on to CheckCreateKeys
ExecuteFrom(res, rd) ==
    /\ resolveErr' = res.err
    /\ kubeHosts' = IF res.err THEN kubeHosts ELSE res.cluster
    /\ kubeCertTemplates' = IF res.err THEN kubeCertTemplates ELSE rd.tpls
    /\ AllKubeCerts' = IF res.err THEN AllKubeCerts ELSE AllKubeCerts \o rd.r.all
    /\ KubeCAMap' = IF res.err THEN KubeCAMap ELSE rd.r.camap @@ KubeCAMap
    /\ pc' = IF res.err THEN "keys" ELSE "certs"

Execute_Resolve ==
    /\ pc = "start"
    /\ ExecuteFrom(Resolved,
                   IF Resolved.err THEN [tpls |-> <<>>, r |-> [all |-> <<>>, camap |-> <<>>]]
                   ELSE Rendered(getUsers(args.users, kubeCertTemplates),
                                 Resolved.cluster, ord))
    /\ UNCHANGED <<input, output, faulted, args, OverWrite, ForceRegen, ord, store, writeStore, run, idx, certsChanged,
                   keysChanged, AllKubeKeys, reported, wlog, rlog, genCalls,
                   keyGens, storeAtStart>>

\* the descriptor the loop of CheckCreateCerts is at, after its checks
Checked == Validate(AllKubeCerts[idx], AllKubeCerts, KubeCAMap, kubeCertTemplates,
                    store, ForceRegen)

CheckedReads == ValidateReads(AllKubeCerts[idx], store, ForceRegen)

InCerts == pc = "certs" /\ idx <= Len(AllKubeCerts)

\* where the loop of CheckCreateCerts goes after descriptor idx
AfterCert == IF idx = Len(AllKubeCerts) THEN "keys" ELSE "certs"

\* the branch of CheckCreateCerts that prints CRT OK for the checked
\* descriptor c
KeepCert(c) ==
    /\ c.failed = ""
    /\ ~MustRegen(c.failed, ForceRegen, OverWrite)
    /\ AllKubeCerts' = [AllKubeCerts EXCEPT ![idx] = [c EXCEPT !.outcome = "OK"]]
    /\ idx' = idx + 1
    /\ pc' = AfterCert
    /\ UNCHANGED <<store, writeStore, wlog, certsChanged, genCalls, keyGens>>

\* one iteration of CheckCreateCerts: the descriptor is valid and kept
CertKept ==
    /\ InCerts
    /\ KeepCert(Checked)
    /\ rlog' = rlog \o CheckedReads
    /\ UNCHANGED <<input, output, faulted, args, OverWrite, ForceRegen, ord, run, resolveErr, kubeHosts,
                   kubeCertTemplates, KubeCAMap, keysChanged, AllKubeKeys,
                   reported, storeAtStart>>

\* genCrt and genPEM on the checked descriptor c with a new private key
Generate(c, newKey) ==
    genPEM(c, genCrt(c, AllKubeCerts, KubeCAMap, kubeCertTemplates, newKey))

\* variant of ChangedAfter that sets Changed before the writes
ChangedAfter_Early(changed, n) == TRUE

\* kubecerts.Changed after writeCerts, n of whose two writes succeeded
ChangedAfter(changed, n) == IF n = 2 THEN TRUE ELSE changed

\* the branch of CheckCreateCerts that regenerates: c is the checked
\* descriptor, g the descriptor after genCrt and genPEM, n the number of
\* writes of writeCerts that succeed (the first failing one ends the process
\* through log.Fatal)
RegenCert(c, g, n) ==
    /\ c.failed # NilDereference
    /\ MustRegen(c.failed, ForceRegen, OverWrite)
    /\ g.cert # NilCert
    /\ store' = AfterWriteSrc(store, writeStore, writeCerts(store, g, n))
    /\ writeStore' = AfterWriteDst(writeStore, writeCerts(writeStore.files, g, n))
    /\ wlog' = wlog \o writeCertsLog(g, n)
    /\ certsChanged' = ChangedAfter(certsChanged, n)
    /\ AllKubeCerts' = [AllKubeCerts EXCEPT
                           ![idx] = [g EXCEPT !.outcome = IF n = 2 THEN "WRITTEN" ELSE ""]]
    /\ genCalls' = Append(genCalls, idx)
    /\ keyGens' = keyGens + 1
    /\ idx' = IF n = 2 THEN idx + 1 ELSE idx
    /\ pc' = IF n = 2 THEN AfterCert ELSE "fatal"

\* one iteration of CheckCreateCerts: generate, encode, write, report
CertRegenerated ==
    /\ InCerts
    /\ RegenCert(Checked, Generate(Checked, PrivateKey(run, idx)), 2)
    /\ rlog' = rlog \o CheckedReads
    /\ UNCHANGED <<input, output, faulted, args, OverWrite, ForceRegen, ord, run, resolveErr, kubeHosts,
                   kubeCertTemplates, KubeCAMap, keysChanged, AllKubeKeys,
                   reported, storeAtStart>>

\* one iteration of CheckCreateCerts: a write of writeCerts fails (the first
\* one when crtWritten is FALSE, the second one otherwise); log.Fatal
CertWriteFailed(crtWritten) ==
    /\ InCerts
    /\ RegenCert(Checked, Generate(Checked, PrivateKey(run, idx)),
                 IF crtWritten THEN 1 ELSE 0)
    /\ rlog' = rlog \o CheckedReads
    /\ faulted' = TRUE
    /\ UNCHANGED <<input, output, args, OverWrite, ForceRegen, ord, run, resolveErr, kubeHosts,
                   kubeCertTemplates, KubeCAMap, keysChanged, AllKubeKeys,
                   reported, storeAtStart>>

\* the branch of CheckCreateCerts that regenerates when genCrt returns the
\* error g for the checked descriptor c
GenFail(c, g) ==
    /\ c.failed # NilDereference
    /\ MustRegen(c.failed, ForceRegen, OverWrite)
    /\ g.err
    /\ AllKubeCerts' = [AllKubeCerts EXCEPT
                           ![idx] = [c EXCEPT !.cert = g.cert, !.key = g.key]]
    /\ genCalls' = Append(genCalls, idx)
    /\ pc' = "fatal"
    /\ UNCHANGED <<store, writeStore, wlog, certsChanged, idx, keyGens>>

\* one iteration of CheckCreateCerts: no private key could be generated,
\* genCrt fails and the error reaches log.Fatal
CertGenFailed ==
    /\ InCerts
    /\ GenFail(Checked, genCrt(Checked, AllKubeCerts, KubeCAMap, kubeCertTemplates,
                               NilKey))
    /\ rlog' = rlog \o CheckedReads
    /\ faulted' = TRUE
    /\ UNCHANGED <<input, output, args, OverWrite, ForceRegen, ord, run, resolveErr, kubeHosts,
                   kubeCertTemplates, KubeCAMap, keysChanged, AllKubeKeys,
                   reported, storeAtStart>>

\* the last branch of CheckCreateCerts for the checked descriptor c
PanicCert(c) ==
    /\ c.failed # ""
    /\ c.failed = NilDereference \/ ~MustRegen(c.failed, ForceRegen, OverWrite)
    /\ AllKubeCerts' = [AllKubeCerts EXCEPT ![idx] = c]
    /\ pc' = "panic"
    /\ UNCHANGED <<store, writeStore, wlog, certsChanged, idx, genCalls, keyGens>>

\* one iteration of CheckCreateCerts: the check failed and OverWrite is
\* forbidden (or the parent certificate is nil): panic
CertPanic ==
    /\ InCerts
    /\ PanicCert(Checked)
    /\ rlog' = rlog \o CheckedReads
    /\ UNCHANGED <<input, output, faulted, args, OverWrite, ForceRegen, ord, run, resolveErr, kubeHosts,
                   kubeCertTemplates, KubeCAMap, keysChanged, AllKubeKeys,
                   reported, storeAtStart>>

RenderedKeys == renderKeys(AllKubeKeys)

\* the key pair of CheckCreateKeys (the catalog holds one) after its checks
CheckedKey == ValidateKey(RenderedKeys[1], store, ForceRegen)

CheckedKeyReads == ValidateKeyReads(RenderedKeys[1], store, ForceRegen)

\* the branch of CheckCreateKeys that prints KEY OK for the checked pair k
KeepKey(k) ==
    /\ k.failed = ""
    /\ ~MustRegen(k.failed, ForceRegen, OverWrite)
    /\ AllKubeKeys' = [RenderedKeys EXCEPT ![1] = [k EXCEPT !.outcome = "OK"]]
    /\ pc' = "report"
    /\ UNCHANGED <<store, writeStore, wlog, keysChanged, keyGens>>

\* CheckCreateKeys: the key pair is valid and kept
KeysKept ==
    /\ pc = "keys"
    /\ KeepKey(CheckedKey)
    /\ rlog' = rlog \o CheckedKeyReads
    /\ UNCHANGED <<input, output, faulted, args, OverWrite, ForceRegen, ord, run, resolveErr, kubeHosts,
                   kubeCertTemplates, AllKubeCerts, KubeCAMap, idx, certsChanged,
                   reported, genCalls, storeAtStart>>

\* the branch of CheckCreateKeys that regenerates: k is the checked pair, g
\* the pair after genKey and genPEM, n the number of writes of writeCerts
\* that succeed (after a failing one the error is returned to main, which
\* ignores it)
RegenKey(k, g, n) ==
    /\ MustRegen(k.failed, ForceRegen, OverWrite)
    /\ store' = AfterWriteSrc(store, writeStore, writeKeys(store, g, n))
    /\ writeStore' = AfterWriteDst(writeStore, writeKeys(writeStore.files, g, n))
    /\ wlog' = wlog \o writeKeysLog(g, n)
    /\ keysChanged' = ChangedAfter(keysChanged, n)
    /\ AllKubeKeys' = [RenderedKeys EXCEPT
                          ![1] = [g EXCEPT !.outcome = IF n = 2 THEN "WRITTEN" ELSE ""]]
    /\ keyGens' = IF g.key = NilKey THEN keyGens ELSE keyGens + 1
    /\ pc' = "report"

\* the key NewPrivateKey hands out to genKey: nil when generation failed
NewSaKey(keyOk) == IF keyOk THEN PrivateKey(run, 0) ELSE NilKey

\* CheckCreateKeys: generate, encode, write .pub then .key, report; genKey
\* drops the error of NewPrivateKey, so a failed generation (keyOk FALSE)
\* goes on with a nil key
KeysRegenerated(keyOk) ==
    /\ pc = "keys"
    /\ RegenKey(CheckedKey, genKeyPEM(CheckedKey, NewSaKey(keyOk)), 2)
    /\ rlog' = rlog \o CheckedKeyReads
    /\ faulted' = (faulted \/ ~keyOk)
    /\ UNCHANGED <<input, output, args, OverWrite, ForceRegen, ord, run, resolveErr, kubeHosts,
                   kubeCertTemplates, AllKubeCerts, KubeCAMap, idx, certsChanged,
                   reported, genCalls, storeAtStart>>

\* CheckCreateKeys: a write fails (the first one when pubWritten is FALSE)
KeysWriteFailed(pubWritten) ==
    /\ pc = "keys"
    /\ RegenKey(CheckedKey, genKeyPEM(CheckedKey, NewSaKey(TRUE)),
                IF pubWritten THEN 1 ELSE 0)
    /\ rlog' = rlog \o CheckedKeyReads
    /\ faulted' = TRUE
    /\ UNCHANGED <<input, output, args, OverWrite, ForceRegen, ord, run, resolveErr, kubeHosts,
                   kubeCertTemplates, AllKubeCerts, KubeCAMap, idx, certsChanged,
                   reported, genCalls, storeAtStart>>

\* the last branch of CheckCreateKeys for the checked pair k
PanicKey(k) ==
    /\ k.failed # ""
    /\ ~MustRegen(k.failed, ForceRegen, OverWrite)
    /\ AllKubeKeys' = [RenderedKeys EXCEPT ![1] = k]
    /\ pc' = "panic"
    /\ UNCHANGED <<store, writeStore, wlog, keysChanged, keyGens>>

\* CheckCreateKeys: the check failed and OverWrite is forbidden: panic
KeysPanic ==
    /\ pc = "keys"
    /\ PanicKey(CheckedKey)
    /\ rlog' = rlog \o CheckedKeyReads
    /\ UNCHANGED <<input, output, faulted, args, OverWrite, ForceRegen, ord, run, resolveErr, kubeHosts,
                   kubeCertTemplates, AllKubeCerts, KubeCAMap, idx, certsChanged,
                   reported, genCalls, storeAtStart>>

\* variant of GlobalChanged that leaves kubekeys.Changed out
GlobalChanged_CertsOnly(certs, keys) == certs

\* the value main prints after GLOBAL_CHANGED
GlobalChanged(certs, keys) == certs \/ keys

\* main after CheckCreateKeys: print GLOBAL_CHANGED and exit
Main_Report ==
    /\ pc = "report"
    /\ reported' = IF GlobalChanged(certsChanged, keysChanged) THEN "TRUE" ELSE "FALSE"
    /\ pc' = "done"
    /\ UNCHANGED <<input, output, faulted, args, OverWrite, ForceRegen, ord, store, writeStore, run, resolveErr, kubeHosts,
                   kubeCertTemplates, AllKubeCerts, KubeCAMap, idx, certsChanged,
                   keysChanged, AllKubeKeys, wlog, rlog, genCalls, keyGens,
                   storeAtStart>>

MapOrders == {"fwd", "rev"}

\* the operator starts the program again with the same arguments over the
\* storage the last process left: package variables are initialised anew
NewRun ==
    /\ pc = "done"
    /\ run < MaxRuns
    /\ run' = run + 1
    /\ ord' \in MapOrders
    /\ pc' = "start"
    /\ resolveErr' = FALSE
    /\ kubeHosts' = NoTopology
    /\ kubeCertTemplates' = StaticTemplates
    /\ AllKubeCerts' = <<>>
    /\ KubeCAMap' = <<>>
    /\ idx' = 1
    /\ certsChanged' = FALSE
    /\ keysChanged' = FALSE
    /\ AllKubeKeys' = <<>>
    /\ reported' = ""
    /\ wlog' = <<>>
    /\ rlog' = <<>>
    /\ genCalls' = <<>>
    /\ keyGens' = 0
    /\ storeAtStart' = store
    /\ UNCHANGED <<input, output, faulted, args, OverWrite, ForceRegen, store, writeStore>>

(***************************************************************************)
(* Initial states: the arguments, the policy and the storage content the   *)
(* operator starts the program with.                                       *)
(***************************************************************************)
Inputs ==
    { [apisans |-> <<"k", "/", "10.0.0.1">>, masters |-> <<"m">>, workers |-> <<"w">>,
       etcd |-> EmptyStr, users |-> <<"bob", "/", "g1">>],
      [apisans |-> <<"k">>, masters |-> <<"n", "/", "x">>, workers |-> <<"n", "/", "y">>,
       etcd |-> <<"e", "/">>, users |-> EmptyStr],
      [apisans |-> <<"k">>, masters |-> EmptyStr, workers |-> <<"w">>,
       etcd |-> EmptyStr, users |-> EmptyStr],
      [apisans |-> <<"FE80", ":", ":", "1">>, masters |-> <<"m">>, workers |-> <<"w">>,
       etcd |-> EmptyStr, users |-> EmptyStr] }

\* the catalog and the descriptors a process renders when getKubehosts
\* returned res
DescriptorsFor(res, tpls) ==
    IF res.err THEN Rendered(tpls, NoTopology, "fwd")
    ELSE Rendered(tpls, res.cluster, "fwd")

\* the catalog and the descriptors a process renders for the arguments a
DescriptorsOf(a) ==
    DescriptorsFor(getKubehosts(a.apisans, a.masters, a.workers, a.etcd),
                   getUsers(a.users, StaticTemplates))

RECURSIVE IssueAll(_, _, _, _)
\* the descriptors from i on issued in catalog order, descriptor i with the
\* private key number i
IssueAll(all, camap, tpls, i) ==
    IF i > Len(all) THEN all
    ELSE IssueAll([all EXCEPT ![i] = genPEM(all[i], genCrt(all[i], all, camap, tpls,
                                                          PrivateKey(0, i)))],
                  camap, tpls, i + 1)

OtherKey == PrivateKey(0, -1)    \* a private key that belongs to nothing stored
SaKey == PrivateKey(0, 0)        \* the signing key pair found in the storage

GarbagePEM == <<[type |-> "GARBAGE", der |-> [junk |-> TRUE]]>>

Kinds == {"none", "absent", "nocrt", "nokey", "garbage", "badsig", "cn", "org",
          "san", "dupsan", "keyswap", "expired", "expiring"}

\* the certificate a stored artifact of the given kind holds instead of c
Drifted(c, kind) ==
    CASE kind = "badsig" -> [c EXCEPT !.signer = PublicKey(OtherKey)]
      [] kind = "cn" -> [c EXCEPT !.cn = Str("renamed")]
      [] kind = "org" -> [c EXCEPT !.org = Append(c.org, Str("other"))]
      [] kind = "san" -> [c EXCEPT !.dns = Append(c.dns, Str("other"))]
      [] kind = "dupsan" -> [c EXCEPT !.dns = c.dns \o c.dns]
      [] kind = "expired" -> [c EXCEPT !.daysLeft = -1]
      [] kind = "expiring" -> [c EXCEPT !.daysLeft = CheckCertMinValid - 1]
      [] OTHER -> c

\* the files crt and key at the base path as a stored artifact of a kind
Files(base, crt, key, kind) ==
    CASE kind = "absent" -> <<>>
      [] kind = "nocrt" -> (KeyFile(base) :> key)
      [] kind = "nokey" -> (CrtFile(base) :> crt)
      [] OTHER -> (CrtFile(base) :> crt) @@ (KeyFile(base) :> key)

\* the two files of an issued descriptor d as a stored artifact of a kind
Fragment(d, kind) ==
    Files(d.writePath,
          IF kind = "garbage" THEN GarbagePEM ELSE EncodeCertPEM(Drifted(d.cert, kind)),
          IF kind = "keyswap" THEN MarshalPrivateKeyToPEM(OtherKey).pem ELSE d.keyPEM,
          kind)

SaBase == filepathJoin(<<Str(GlobalPath), SaPath>>)

\* the files pub and key of the signing key pair as a stored artifact
SaFiles(pub, key, kind) ==
    CASE kind = "absent" -> <<>>
      [] kind = "nocrt" -> (KeyFile(SaBase) :> key)
      [] kind = "nokey" -> (PubFile(SaBase) :> pub)
      [] OTHER -> (PubFile(SaBase) :> pub) @@ (KeyFile(SaBase) :> key)

\* the signing key pair as a stored artifact of a kind
SaFragment(kind) ==
    SaFiles(EncodePublicKeyPEM(PublicKey(SaKey)).pem,
            CASE kind = "keyswap" -> MarshalPrivateKeyToPEM(OtherKey).pem
              [] kind = "garbage" -> GarbagePEM
              [] OTHER -> MarshalPrivateKeyToPEM(SaKey).pem,
            kind)

RECURSIVE StoreFrom(_, _, _, _, _)
\* the storage holding the artifacts of the issued descriptors from i on
\* whose number is in the set keep, descriptor p as an artifact of the kind;
\* of two descriptors with one path the later one is found
StoreFrom(issued, i, keep, p, kind) ==
    IF i > Len(issued) THEN <<>>
    ELSE IF i \notin keep THEN StoreFrom(issued, i + 1, keep, p, kind)
    ELSE StoreFrom(issued, i + 1, keep, p, kind)
             @@ Fragment(issued[i], IF i = p THEN kind ELSE "none")

\* the numbers of the descriptors of certificate authorities
Authorities(issued, tpls) ==
    {i \in 1..Len(issued) : tpls[issued[i].templateIdx].parent = EmptyStr}

\* storage contents a process may find:
\*   - nothing (the first run);
\*   - the complete output of an earlier issue, one artifact (number p; 0 is
\*     the signing key pair) replaced by one of a kind;
\*   - authorities the operator brought along and nothing else, one of them
\*     replaced by one of a kind.
\* A process that is forced to regenerate reads nothing, so it is started
\* over the first and the complete storage only.
StoresOf(issued, authorities, force) ==
    IF force
    THEN { <<>>, StoreFrom(issued, 1, 1..Len(issued), 0, "none") @@ SaFragment("none") }
    ELSE { <<>> }
         \cup { StoreFrom(issued, 1, 1..Len(issued), p, kind)
                    @@ SaFragment(IF p = 0 THEN kind ELSE "none") :
                p \in 0..Len(issued), kind \in Kinds }
         \cup { StoreFrom(issued, 1, authorities, p, kind) :
                p \in authorities, kind \in Kinds }

StoresFor(d, force) ==
    StoresOf(IssueAll(d.r.all, d.r.camap, d.tpls, 1),
             Authorities(d.r.all, d.tpls), force)

InitStores(a, force) == StoresFor(DescriptorsOf(a), force)

Init ==
    /\ args \in Inputs
    /\ OverWrite \in BOOLEAN
    /\ ForceRegen \in BOOLEAN
    /\ ord = "fwd"
    /\ store \in InitStores(args, ForceRegen)
    /\ writeStore = SameLocation
    /\ storeAtStart = store
    /\ pc = "start"
    /\ run = 1
    /\ resolveErr = FALSE
    /\ kubeHosts = NoTopology
    /\ kubeCertTemplates = StaticTemplates
    /\ AllKubeCerts = <<>>
    /\ KubeCAMap = <<>>
    /\ idx = 1
    /\ certsChanged = FALSE
    /\ keysChanged = FALSE
    /\ AllKubeKeys = <<>>
    /\ reported = ""
    /\ wlog = <<>>
    /\ rlog = <<>>
    /\ genCalls = <<>>
    /\ keyGens = 0
    /\ faulted = FALSE
    /\ input = NoCall
    /\ output = <<>>

Next ==
    \/ Execute_Resolve
    \/ CertKept
    \/ CertRegenerated
    \/ CertGenFailed
    \/ \E crtWritten \in BOOLEAN : CertWriteFailed(crtWritten)
    \/ CertPanic
    \/ KeysKept
    \/ \E keyOk \in BOOLEAN : KeysRegenerated(keyOk)
    \/ \E pubWritten \in BOOLEAN : KeysWriteFailed(pubWritten)
    \/ KeysPanic
    \/ Main_Report
    \/ NewRun

Spec == Init /\ [][Next]_vars

\* the program started with -src and -dst naming two locations: the read
\* location holds what an earlier issue left, the write location is new
InitSplit ==
    /\ args \in Inputs
    /\ OverWrite \in BOOLEAN
    /\ ForceRegen \in BOOLEAN
    /\ ord = "fwd"
    /\ store \in InitStores(args, ForceRegen)
    /\ writeStore = [same |-> FALSE, files |-> <<>>]
    /\ storeAtStart = store
    /\ pc = "start"
    /\ run = 1
    /\ resolveErr = FALSE
    /\ kubeHosts = NoTopology
    /\ kubeCertTemplates = StaticTemplates
    /\ AllKubeCerts = <<>>
    /\ KubeCAMap = <<>>
    /\ idx = 1
    /\ certsChanged = FALSE
    /\ keysChanged = FALSE
    /\ AllKubeKeys = <<>>
    /\ reported = ""
    /\ wlog = <<>>
    /\ rlog = <<>>
    /\ genCalls = <<>>
    /\ keyGens = 0
    /\ faulted = FALSE
    /\ input = NoCall
    /\ output = <<>>

SpecSplit == InitSplit /\ [][Next]_vars

(***************************************************************************)
(* The Topology Resolver on every short argument.                          *)
(***************************************************************************)
Tokens == {"a", ",", "/", ":"}

Separators == {",", "/", ":"}

\* the strings of at most n tokens; a name between two separators is one
\* token, so no two names stand side by side
ArgStrings(n) ==
    {s \in UNION {[1..k -> Tokens] : k \in 0..n} :
        \A i \in 1..(Len(s) - 1) : s[i] \in Separators \/ s[i + 1] \in Separators}

\* one argument is explored, the others are given well or not at all
InitResolve ==
    /\ \E role \in {"apisans", "masters", "workers", "etcd"} :
       \E s \in ArgStrings(MaxArgLen) :
       \E rest \in [{"apisans", "masters", "workers", "etcd"} -> {<<"m">>, EmptyStr}] :
           args = [apisans |-> IF role = "apisans" THEN s ELSE rest.apisans,
                   masters |-> IF role = "masters" THEN s ELSE rest.masters,
                   workers |-> IF role = "workers" THEN s ELSE rest.workers,
                   etcd |-> IF role = "etcd" THEN s ELSE rest.etcd,
                   users |-> EmptyStr]
    /\ OverWrite = TRUE
    /\ ForceRegen = FALSE
    /\ ord \in MapOrders
    /\ store = <<>>
    /\ writeStore = SameLocation
    /\ storeAtStart = store
    /\ pc = "start"
    /\ run = 1
    /\ resolveErr = FALSE
    /\ kubeHosts = NoTopology
    /\ kubeCertTemplates = StaticTemplates
    /\ AllKubeCerts = <<>>
    /\ KubeCAMap = <<>>
    /\ idx = 1
    /\ certsChanged = FALSE
    /\ keysChanged = FALSE
    /\ AllKubeKeys = <<>>
    /\ reported = ""
    /\ wlog = <<>>
    /\ rlog = <<>>
    /\ genCalls = <<>>
    /\ keyGens = 0
    /\ faulted = FALSE
    /\ input = NoCall
    /\ output = <<>>

NextResolve == Execute_Resolve

SpecResolve == InitResolve /\ [][NextResolve]_vars

(***************************************************************************)
(* Functions called on their own, on every small argument.                 *)
(***************************************************************************)
\* the slices of at most n elements of S
Slices(S, n) == UNION {[1..k -> S] : k \in 0..n}

\* some element of s stands at two positions
HasRepeat(s) == \E i, j \in 1..Len(s) : i # j /\ s[i] = s[j]

\* the package variables while no process runs
NoProcess ==
    /\ args = [apisans |-> EmptyStr, masters |-> EmptyStr, workers |-> EmptyStr,
               etcd |-> EmptyStr, users |-> EmptyStr]
    /\ OverWrite = TRUE
    /\ ForceRegen = FALSE
    /\ ord = "fwd"
    /\ store = <<>>
    /\ writeStore = SameLocation
    /\ storeAtStart = <<>>
    /\ pc = "idle"
    /\ run = 0
    /\ resolveErr = FALSE
    /\ kubeHosts = NoTopology
    /\ kubeCertTemplates = StaticTemplates
    /\ AllKubeCerts = <<>>
    /\ KubeCAMap = <<>>
    /\ idx = 1
    /\ certsChanged = FALSE
    /\ keysChanged = FALSE
    /\ AllKubeKeys = <<>>
    /\ reported = ""
    /\ wlog = <<>>
    /\ rlog = <<>>
    /\ genCalls = <<>>
    /\ keyGens = 0
    /\ faulted = FALSE

Idle == UNCHANGED <<args, OverWrite, ForceRegen, ord, store, writeStore, pc, run, resolveErr,
                    kubeHosts, kubeCertTemplates, AllKubeCerts, KubeCAMap, idx,
                    certsChanged, keysChanged, AllKubeKeys, reported, wlog, rlog,
                    genCalls, keyGens, storeAtStart, faulted, input>>

\* UniqueStringSliceCmp on every two slices of at most MaxSliceLen names
SliceNames == {Str("a"), Str("b"), Str("c")}

InitCmp ==
    /\ NoProcess
    /\ input \in {[fn |-> "UniqueStringSliceCmp", src |-> a, dst |-> b] :
                     a, b \in Slices(SliceNames, MaxSliceLen)}
    /\ output = <<>>

\* the function is called on the two slices and on the two slices exchanged
Call_UniqueStringSliceCmp ==
    /\ input.fn = "UniqueStringSliceCmp"
    /\ output = <<>>
    /\ output' = <<UniqueStringSliceCmp(input.src, input.dst),
                   UniqueStringSliceCmp(input.dst, input.src)>>
    /\ Idle

NextCmp == Call_UniqueStringSliceCmp

SpecCmp == InitCmp /\ [][NextCmp]_vars

\* makeSans on small topologies: the API aliases and the control-plane nodes
\* vary, a node has at most MaxExtras extra names
SansNames == {Str("a"), Str("b")}

HostMaps(n) ==
    {NoHosts}
    \cup {(Str("a") :> e) : e \in Slices(SansNames, n)}
    \cup {(Str("a") :> e) @@ (Str("b") :> <<>>) : e \in Slices(SansNames, n)}

Topologies(n) ==
    {[apisans |-> api, masters |-> mst,
      workers |-> (Str("a") :> <<Str("b")>>),
      etcd |-> mst] : api, mst \in HostMaps(n)}

InitSans ==
    /\ NoProcess
    /\ input \in {[fn |-> "makeSans", hosts |-> hosts, nodeType |-> rn[1], node |-> rn[2],
                   apiSans |-> api, nodeSans |-> nod, extraSans |-> extra] :
                     hosts \in Topologies(MaxExtras),
                     rn \in {"", "masters", "workers"} \X ({EmptyStr} \cup SansNames),
                     api \in BOOLEAN, nod \in BOOLEAN,
                     extra \in {<<>>, <<Str("a"), Str("kubernetes")>>}}
    /\ input.nodeType = "" <=> input.node = EmptyStr
    /\ input.nodeType # "" => input.node \in DOMAIN input.hosts[input.nodeType]
    /\ output = <<>>

\* the topology with every list of extra names turned around
ReversedHosts(hosts) ==
    [role \in DOMAIN hosts |->
        [node \in DOMAIN hosts[role] |-> Reverse(hosts[role][node])]]

\* the function is called under either iteration order of the maps and on
\* the lists turned around
Call_makeSans ==
    /\ input.fn = "makeSans"
    /\ output = <<>>
    /\ output' = <<makeSans(input.hosts, input.nodeType, input.node, input.apiSans,
                            input.nodeSans, input.extraSans, "fwd"),
                   makeSans(input.hosts, input.nodeType, input.node, input.apiSans,
                            input.nodeSans, input.extraSans, "rev"),
                   makeSans(ReversedHosts(input.hosts), input.nodeType, input.node,
                            input.apiSans, input.nodeSans, Reverse(input.extraSans),
                            "fwd")>>
    /\ Idle

NextSans == Call_makeSans

SpecSans == InitSans /\ [][NextSans]_vars

\* cmpWithDefinition, through the step of CheckCreateCerts that calls it, on
\* stored certificates and descriptors with name lists of at most MaxNames
\* entries; a descriptor holds at most one organisation and no name twice
DefNames == {Str("a"), Str("b")}

StoredCerts(n) ==
    {[nil |-> FALSE, cn |-> cn, org |-> org, dns |-> dns, ips |-> ips] :
        cn \in DefNames, org \in Slices(DefNames, n), dns \in Slices(DefNames, n),
        ips \in {<<>>, <<Str("10.0.0.1")>>}}

Definitions(n) ==
    {[commonName |-> Str("a"), organisation |-> org, sans |-> sans, failed |-> ""] :
        org \in Slices(DefNames, 1),
        sans \in {s \in Slices(DefNames \cup {Str("10.0.0.1")}, n) : ~HasRepeat(s)}}

InitDef ==
    /\ NoProcess
    /\ input \in {[fn |-> "cmpWithDefinition", crt |-> crt, def |-> def] :
                     crt \in StoredCerts(MaxNames), def \in Definitions(MaxNames)}
    /\ output = <<>>

Call_cmpWithDefinition ==
    /\ input.fn = "cmpWithDefinition"
    /\ output = <<>>
    /\ output' = <<CheckDefinition([cert |-> input.crt] @@ input.def).failed>>
    /\ Idle

NextDef == Call_cmpWithDefinition

SpecDef == InitDef /\ [][NextDef]_vars

(***************************************************************************)
(***************************************************************************)
(* The filesystem Storage Port.  A file system is the set of its           *)
(* directories and the content of its files; a path is the sequence of its *)
(* names.  The directory the root path lies in always exists.              *)
(***************************************************************************)
\* path.Dir
Dir(p) == SubSeq(p, 1, Len(p) - 1)

\* the paths of the first k names of p
Prefixes(p, k) == {SubSeq(p, 1, i) : i \in 1..k}

\* TRUE when os.Stat finds something at p
Stat(fs, p) == p \in fs.dirs \/ p \in DOMAIN fs.files

\* os.MkdirAll refuses when the system call fails (mkdirOk FALSE) or when a
\* file stands where a directory is to be
MkdirAll(fs, p, mkdirOk) ==
    IF ~mkdirOk \/ \E q \in Prefixes(p, Len(p)) : q \in DOMAIN fs.files
    THEN [err |-> TRUE, fs |-> fs]
    ELSE [err |-> FALSE, fs |-> [fs EXCEPT !.dirs = @ \cup Prefixes(p, Len(p))]]

\* variant of checkMakeDir that makes the directory whatever makeIt says
checkMakeDir_AlwaysMake(fs, directory, makeIt, mkdirOk) ==
    IF Stat(fs, directory) THEN [err |-> FALSE, fatal |-> FALSE, fs |-> fs]
    ELSE [err |-> FALSE, fatal |-> MkdirAll(fs, directory, mkdirOk).err,
          fs |-> MkdirAll(fs, directory, mkdirOk).fs]

\* checkMakeDir: fatal when log.Fatalf ends the process
checkMakeDir(fs, directory, makeIt, mkdirOk) ==
    IF Stat(fs, directory) THEN [err |-> FALSE, fatal |-> FALSE, fs |-> fs]
    ELSE IF ~makeIt THEN [err |-> TRUE, fatal |-> FALSE, fs |-> fs]
    ELSE [err |-> FALSE, fatal |-> MkdirAll(fs, directory, mkdirOk).err,
          fs |-> MkdirAll(fs, directory, mkdirOk).fs]

\* ioutil.WriteFile: creates the file or replaces its content; refuses when
\* the system call fails (writeOk FALSE), when p is a directory and when the
\* directory of p does not exist
WriteFile(fs, p, content, writeOk) ==
    IF ~writeOk \/ p \in fs.dirs \/ Dir(p) \notin fs.dirs
    THEN [err |-> TRUE, fatal |-> FALSE, fs |-> fs]
    ELSE [err |-> FALSE, fatal |-> FALSE,
          fs |-> [fs EXCEPT !.files = (p :> content) @@ @]]

\* StoreFile.Write after the check of the directory of the file returned d.
\* The error of os.Remove goes to a variable of the if statement alone, so
\* the test that follows reads the nil of the last checkMakeDir
WriteInDir(d, s, full, content, env) ==
    IF d.err \/ d.fatal THEN d
    ELSE WriteFile(d.fs, full, content, env.writeOk)

\* StoreFile.Write after the check of the root directory returned c
WriteInRoot(c, s, full, content, env) ==
    IF c.err \/ c.fatal THEN c
    ELSE WriteInDir(checkMakeDir(c.fs, Dir(full), s.MakeDirs, env.mkdirOk),
                    s, full, content, env)

\* StoreFile.Write on the file system fs
StoreFile_Write(s, fs, filePath, content, env) ==
    WriteInRoot(checkMakeDir(fs, s.RootPath, s.MakeRoot, env.mkdirOk),
                s, s.RootPath \o filePath, content, env)

RootDir == <<"out">>

\* the file path of n names
FilePathOf(n) == [i \in 1..n |-> IF i = n THEN "f" ELSE "d"]

\* the file systems in which the first k names of the path p are directories
\* and the next one is nothing, a file or, for the last name, a directory
FileSystemsAt(p, k) ==
    {[dirs |-> Prefixes(p, k), files |-> <<>>]}
    \cup (IF k < Len(p)
          THEN {[dirs |-> Prefixes(p, k), files |-> (SubSeq(p, 1, k + 1) :> "old")]}
          ELSE {})

FileSystems(p) ==
    UNION {FileSystemsAt(p, k) : k \in 0..Len(p)}

\* StoreFile.Write on every such file system, with files at most MaxDepth
\* directories below the root
InitFile ==
    /\ NoProcess
    /\ input \in {[fn |-> "Write", s |-> [RootPath |-> RootDir, MakeRoot |-> mr, MakeDirs |-> md],
                   filePath |-> FilePathOf(n), fs |-> fs, content |-> "new",
                   env |-> [mkdirOk |-> mk, writeOk |-> wr]] :
                     mr \in BOOLEAN, md \in BOOLEAN, mk \in BOOLEAN, wr \in BOOLEAN,
                     n \in 1..(MaxDepth + 1),
                     fs \in UNION {FileSystems(RootDir \o FilePathOf(m)) : m \in 1..(MaxDepth + 1)}}
    /\ output = <<>>

\* Write is called; checkMakeDir is called on the directory of the file with
\* makeIt false, as its test does
Call_Write ==
    /\ input.fn = "Write"
    /\ output = <<>>
    /\ output' = <<StoreFile_Write(input.s, input.fs, input.filePath, input.content,
                                   input.env),
                   checkMakeDir(input.fs, Dir(input.s.RootPath \o input.filePath), FALSE,
                                input.env.mkdirOk)>>
    /\ Idle

NextFile == Call_Write

SpecFile == InitFile /\ [][NextFile]_vars

(* Properties.                                                             *)
(***************************************************************************)
\* the paths of the two files of descriptor i, as writeCerts writes them
CertFiles(i) == <<CrtFile(AllKubeCerts[i].writePath), KeyFile(AllKubeCerts[i].writePath)>>

\* the sequence w holds the two paths side by side
WrittenBoth(w, pair) ==
    \E k \in 1..(Len(w) - 1) : w[k] = pair[1] /\ w[k + 1] = pair[2]

\* C1: with overwrite on and force off, after a first process that ran to its
\* end with no failure of the environment, a second process given the same
\* arguments (accepted by the resolver) over the storage the first one left
\* writes nothing, reports GLOBAL_CHANGED FALSE and leaves the storage as it
\* found it.
C1_SecondRunIdempotent ==
    (run >= 2 /\ pc = "done" /\ ~faulted /\ OverWrite /\ ~ForceRegen /\ ~resolveErr)
        => (wlog = <<>> /\ reported = "FALSE" /\ store = storeAtStart)

\* C2: with force off and overwrite forbidden, the iteration of
\* CheckCreateCerts on a descriptor that fails a check panics; every
\* descriptor before it was kept, and the process has written nothing.
C2_AbortAtFirstInvalid ==
    [][(InCerts /\ ~ForceRegen /\ ~OverWrite /\ Checked.failed # "")
          => (/\ pc' = "panic"
              /\ wlog' = <<>>
              /\ store' = storeAtStart
              /\ \A j \in 1..(idx - 1) : AllKubeCerts[j].outcome = "OK")]_vars

C2_Witness ==
    /\ pc = "panic" /\ ~ForceRegen /\ ~OverWrite
    /\ idx > 3
    /\ AllKubeCerts[idx].failed = "cert not emitted according to definition"
    /\ wlog = <<>>

\* C3: with force off, the iteration of CheckCreateCerts on a descriptor
\* that passes every check reports it OK, writes nothing, leaves the storage
\* as it is and leaves kubecerts.Changed as it is.
C3_KeptFrame ==
    [][(InCerts /\ ~ForceRegen /\ Checked.failed = "")
          => (/\ AllKubeCerts'[idx].outcome = "OK"
              /\ store' = store
              /\ wlog' = wlog
              /\ certsChanged' = certsChanged)]_vars

C3_Witness ==
    /\ pc = "certs" /\ ~ForceRegen /\ idx > 4
    /\ AllKubeCerts[idx - 1].outcome = "OK"
    /\ certsChanged
    /\ CrtFile(AllKubeCerts[idx - 1].writePath) \in DOMAIN store
    /\ ~WrittenBoth(wlog, CertFiles(idx - 1))

\* C4: the iteration of CheckCreateCerts on a descriptor that failed a check
\* while overwrite is permitted, or under force, calls the generator and
\* writes the certificate file and then the key file, nothing else and never
\* the key without the certificate before it; the descriptor is reported
\* WRITTEN and kubecerts.Changed is set exactly when both writes were made,
\* and then the two files hold the encoded certificate and key.
C4_RegenerateOrder ==
    [][(InCerts /\ Checked.failed # "" /\ (ForceRegen \/ OverWrite))
          => (/\ genCalls' = Append(genCalls, idx)
              /\ \E n \in 0..2 : wlog' = wlog \o SubSeq(CertFiles(idx), 1, n)
              /\ IF wlog' = wlog \o CertFiles(idx)
                 THEN /\ certsChanged'
                      /\ AllKubeCerts'[idx].outcome = "WRITTEN"
                      /\ store'[CertFiles(idx)[1]] = EncodeCertPEM(AllKubeCerts'[idx].cert)
                      /\ store'[CertFiles(idx)[2]] =
                             MarshalPrivateKeyToPEM(AllKubeCerts'[idx].key).pem
                      /\ AllKubeCerts'[idx].cert # NilCert
                 ELSE /\ certsChanged' = certsChanged
                      /\ AllKubeCerts'[idx].outcome # "WRITTEN"
                      /\ pc' = "fatal")]_vars

C4_Witness ==
    /\ pc = "certs" /\ OverWrite /\ ~ForceRegen /\ idx > 4
    /\ AllKubeCerts[idx - 1].outcome = "WRITTEN"
    /\ AllKubeCerts[idx - 1].failed = "cert not emitted by parent CA"
    /\ WrittenBoth(wlog, CertFiles(idx - 1))
    /\ certsChanged

\* C5: when main has printed its report, it printed GLOBAL_CHANGED TRUE
\* exactly when some certificate descriptor or some key pair was reported
\* WRITTEN by this process, both its files written.
C5_ChangedIffWritten ==
    pc = "done" =>
        (reported = "TRUE" <=>
            \/ \E i \in 1..Len(AllKubeCerts) :
                   AllKubeCerts[i].outcome = "WRITTEN" /\ WrittenBoth(wlog, CertFiles(i))
            \/ \E k \in 1..Len(AllKubeKeys) :
                   /\ AllKubeKeys[k].outcome = "WRITTEN"
                   /\ WrittenBoth(wlog, <<PubFile(AllKubeKeys[k].writePath),
                                          KeyFile(AllKubeKeys[k].writePath)>>))

C5_Witness ==
    /\ pc = "done" /\ reported = "TRUE"
    /\ ~certsChanged /\ keysChanged
    /\ Len(AllKubeCerts) > 0
    /\ \A i \in 1..Len(AllKubeCerts) : AllKubeCerts[i].outcome = "OK"

\* the parent reference of the template of descriptor i
ParentOf(i) == kubeCertTemplates[AllKubeCerts[i].templateIdx].parent

\* the descriptor genCrt and the signature check read as the parent of i
AuthorityOf(i) == AllKubeCerts[ParentIdx(KubeCAMap, ParentOf(i))]

\* C6: while CheckCreateCerts is at a descriptor with a parent, the index
\* KubeCAMap holds for the parent is that of the parent's own descriptor, it
\* lies before the descriptor, and that descriptor has been reported OK or
\* WRITTEN by this process and holds a certificate and a key.
C6_AuthorityBeforeLeaf ==
    (InCerts /\ ParentOf(idx) # EmptyStr)
        => (/\ ParentOf(idx) \in DOMAIN KubeCAMap
            /\ KubeCAMap[ParentOf(idx)] < idx
            /\ kubeCertTemplates[AuthorityOf(idx).templateIdx].path = ParentOf(idx)
            /\ kubeCertTemplates[AuthorityOf(idx).templateIdx].parent = EmptyStr
            /\ AuthorityOf(idx).outcome \in {"OK", "WRITTEN"}
            /\ AuthorityOf(idx).cert # NilCert
            /\ AuthorityOf(idx).key # NilKey)

C6_Witness ==
    /\ InCerts
    /\ ParentOf(idx) = CaPath
    /\ kubeCertTemplates[AllKubeCerts[idx].templateIdx].path = UsersPath \o <<"bob">>
    /\ AuthorityOf(idx).outcome = "WRITTEN"
    /\ AllKubeCerts[idx - 1].outcome = "OK"

\* C7: when getKubehosts rejects the arguments, the process generates no
\* key, writes nothing and does not enter CheckCreateKeys.
C7_RejectedInputStops ==
    resolveErr => (wlog = <<>> /\ keyGens = 0 /\ AllKubeKeys = <<>> /\ store = storeAtStart)

\* positions i..j of s lie in one entry of the comma separated list
SameEntry(s, i, j) == \A k \in i..j : s[k] # ","

\* some entry of s holds more than one "/"
TwoSlashes(s) ==
    \E i, j \in 1..Len(s) : i < j /\ s[i] = "/" /\ s[j] = "/" /\ SameEntry(s, i, j)

\* some entry of s holds, after its "/", an empty name: the "/" or a ":"
\* behind it is followed by a ":" or by the end of the entry
EmptyExtra(s) ==
    \E q, i \in 1..Len(s) :
        /\ q <= i /\ s[q] = "/" /\ SameEntry(s, q, i)
        /\ s[i] \in {"/", ":"}
        /\ (i = Len(s) \/ s[i + 1] \in {",", ":"})

Malformed(s) == TwoSlashes(s) \/ EmptyExtra(s)

Rejected(s) == s = EmptyStr \/ Malformed(s)

Roles == {"apisans", "masters", "workers", "etcd"}

\* C8: getKubehosts returns an error, and no topology, exactly when the API
\* alias, control-plane or worker argument is empty or holds an entry with
\* more than one "/" or an empty extra name; otherwise it returns a mapping
\* from the four roles to nodes to extra names.
C8_ResolverRejects ==
    pc # "start" =>
        /\ resolveErr <=> (Rejected(args.apisans) \/ Rejected(args.masters)
                              \/ Rejected(args.workers))
        /\ resolveErr => kubeHosts = NoTopology
        /\ ~resolveErr =>
              /\ DOMAIN kubeHosts = Roles
              /\ \A role \in Roles : \A node \in DOMAIN kubeHosts[role] :
                     \A i \in 1..Len(kubeHosts[role][node]) :
                         kubeHosts[role][node][i] # EmptyStr

C8_Witness ==
    /\ pc # "start" /\ resolveErr
    /\ args.apisans = <<"m">> /\ args.workers = <<"m">>
    /\ args.masters = <<"a", "/", ":">>

\* C9: the control-plane nodes stand in for the etcd role only when the
\* etcd argument is empty; an etcd argument that is given but holds an entry
\* with more than one "/" or an empty extra name makes getKubehosts return an
\* error.
C9_MalformedEtcdRejected ==
    pc # "start" =>
        /\ (args.etcd # EmptyStr /\ Malformed(args.etcd))
              => (resolveErr /\ kubeHosts = NoTopology)
        /\ (~resolveErr /\ args.etcd = EmptyStr)
              => kubeHosts["etcd"] = kubeHosts["masters"]
        /\ (~resolveErr /\ args.etcd # EmptyStr /\ ~Malformed(args.etcd))
              => kubeHosts["etcd"] = parsesans(args.etcd, FALSE).hostmap

\* C10: no two descriptors of AllKubeCerts come from the same template for
\* the same node, and no two have the same storage path.
C10_OneDescriptorPerTemplateNode ==
    \A i, j \in 1..Len(AllKubeCerts) :
        i # j => /\ <<AllKubeCerts[i].templateIdx, AllKubeCerts[i].node>>
                      # <<AllKubeCerts[j].templateIdx, AllKubeCerts[j].node>>
                 /\ AllKubeCerts[i].writePath # AllKubeCerts[j].writePath

\* the template descriptor i was rendered from
TemplateOf(i) == kubeCertTemplates[AllKubeCerts[i].templateIdx]

\* C11: the read path and the write path of every descriptor are equal; a
\* descriptor of a template without node roles lies at global/<template-path>
\* and a descriptor of a template with node roles at
\* nodes/<node-name>/<template-path>, whatever node name parsesans accepted,
\* the empty name of a trailing comma included.
C11_StorageScope ==
    \A i \in 1..Len(AllKubeCerts) :
        /\ AllKubeCerts[i].readPath = AllKubeCerts[i].writePath
        /\ IF TemplateOf(i).nodes = <<>>
           THEN AllKubeCerts[i].writePath = <<GlobalPath>> \o TemplateOf(i).path
           ELSE AllKubeCerts[i].writePath =
                    <<NodesPath, "/">> \o AllKubeCerts[i].node \o TemplateOf(i).path

\* the names the call of makeSans in input is to return: the API aliases and
\* their extra names when apiSans is set; the node, its extra names under the
\* given role and the loopback names when nodeSans is set; the extraSans
ExpectedSans ==
    (IF input.apiSans
     THEN DOMAIN input.hosts["apisans"]
          \cup {n \in SansNames : \E h \in DOMAIN input.hosts["apisans"] :
                                      \E k \in 1..Len(input.hosts["apisans"][h]) :
                                          input.hosts["apisans"][h][k] = n}
     ELSE {})
    \cup (IF input.nodeSans
          THEN {input.node, Str("127.0.0.1"), Str("localhost"), <<":", ":", "1">>}
               \cup (IF input.nodeType = "" THEN {}
                     ELSE {input.hosts[input.nodeType][input.node][k] :
                              k \in 1..Len(input.hosts[input.nodeType][input.node])})
          ELSE {})
    \cup {input.extraSans[k] : k \in 1..Len(input.extraSans)}

\* C12: makeSans returns a list without repeats whose elements are exactly
\* the expected names, under either iteration order of the maps and with the
\* input lists turned around.
C12_SansUnion ==
    (input.fn = "makeSans" /\ output # <<>>) =>
        \A k \in 1..Len(output) :
            /\ ~HasRepeat(output[k])
            /\ {output[k][j] : j \in 1..Len(output[k])} = ExpectedSans

C12_Witness ==
    /\ input.fn = "makeSans" /\ output # <<>>
    /\ input.apiSans /\ input.nodeSans /\ input.extraSans # <<>>
    /\ input.nodeType = "masters" /\ input.node = Str("a")
    /\ input.hosts["masters"][Str("a")] = <<Str("b"), Str("b")>>
    /\ input.hosts["apisans"] = (Str("a") :> <<Str("b"), Str("a")>>) @@ (Str("b") :> <<>>)
    /\ output[1] # output[2]
    /\ Len(output[1]) = 6

\* the lists x and y hold the same elements, each once
SameSet(x, y) ==
    /\ ~HasRepeat(x) /\ ~HasRepeat(y)
    /\ {x[i] : i \in 1..Len(x)} = {y[i] : i \in 1..Len(y)}

\* C13: the conformance step accepts the stored certificate exactly when its
\* common name is the descriptor's and its organization list and its list of
\* alternative names (DNS names, then addresses) hold the same elements as
\* the descriptor's, each once; every other certificate, one that repeats an
\* alternative name included, is marked "cert not emitted according to
\* definition".
C13_DefinitionConformance ==
    (input.fn = "cmpWithDefinition" /\ output # <<>>) =>
        /\ output[1] \in {"", "cert not emitted according to definition"}
        /\ output[1] = "" <=>
              /\ input.crt.cn = input.def.commonName
              /\ SameSet(input.crt.org, input.def.organisation)
              /\ SameSet(input.crt.dns \o input.crt.ips, input.def.sans)
        /\ HasRepeat(input.crt.dns \o input.crt.ips)
              => output[1] = "cert not emitted according to definition"

\* C14: UniqueStringSliceCmp returns an error whenever the two slices differ
\* in length or one of them holds an element twice.
C14_RepeatsRejected ==
    (input.fn = "UniqueStringSliceCmp" /\ output # <<>>) =>
        ((Len(input.src) # Len(input.dst) \/ HasRepeat(input.src) \/ HasRepeat(input.dst))
            => output[1])

\* dst holds the elements of src, each as often as src does
IsPermutation(src, dst) ==
    /\ Len(src) = Len(dst)
    /\ \A x \in SliceNames :
           Cardinality({i \in 1..Len(src) : src[i] = x})
               = Cardinality({i \in 1..Len(dst) : dst[i] = x})

\* C15: UniqueStringSliceCmp returns nil for a slice without repeats and any
\* permutation of it, two empty slices included, and its verdict for two
\* slices is its verdict for the two slices exchanged.
C15_OrderIndependent ==
    (input.fn = "UniqueStringSliceCmp" /\ output # <<>>) =>
        /\ (~HasRepeat(input.src) /\ IsPermutation(input.src, input.dst)) => ~output[1]
        /\ output[1] = output[2]

C15_Witness ==
    /\ input.fn = "UniqueStringSliceCmp" /\ output = <<FALSE, FALSE>>
    /\ input.src = <<Str("a"), Str("b"), Str("c")>>
    /\ input.dst = <<Str("c"), Str("a"), Str("b")>>

\* what LoadCrtAndKeyFromPEM makes of the two files stored for descriptor i
StoredPair(i) ==
    LoadCrtAndKeyFromPEM(Read(store, CrtFile(AllKubeCerts[i].readPath)).content,
                         Read(store, KeyFile(AllKubeCerts[i].readPath)).content)

\* the two files of leaf descriptor i are stored and parse, the certificate
\* carries the signature of the parent authority as this process holds it,
\* and its common name is not the one the descriptor resolves to
DriftedName(i) ==
    /\ ParentOf(i) # EmptyStr
    /\ CrtFile(AllKubeCerts[i].readPath) \in DOMAIN store
    /\ KeyFile(AllKubeCerts[i].readPath) \in DOMAIN store
    /\ ~StoredPair(i).err
    /\ AuthorityOf(i).outcome \in {"OK", "WRITTEN"}
    /\ AuthorityOf(i).cert # NilCert
    /\ AuthorityOf(i).cert.isCA
    /\ StoredPair(i).crt.signer = AuthorityOf(i).cert.pub
    /\ StoredPair(i).crt.cn # AllKubeCerts[i].commonName

\* C16: the iteration of CheckCreateCerts on a stored leaf certificate that
\* loads, parses and verifies against its processed parent but carries
\* another common name than the descriptor gives it the reason "cert not
\* emitted according to definition"; with overwrite permitted and no failure
\* of key generation or storage so far, the certificate file then
\* holds a certificate with the descriptor's common name, signed by the
\* parent, and the descriptor is reported WRITTEN.
C16_DriftRegenerated ==
    [][(InCerts /\ ~ForceRegen /\ DriftedName(idx))
          => (/\ AllKubeCerts'[idx].failed = "cert not emitted according to definition"
              /\ (OverWrite /\ ~faulted')
                    => (/\ AllKubeCerts'[idx].outcome = "WRITTEN"
                        /\ store'[CertFiles(idx)[1]] # store[CertFiles(idx)[1]]
                        /\ Len(store'[CertFiles(idx)[1]]) = 1
                        /\ store'[CertFiles(idx)[1]][1].type = "CERTIFICATE"
                        /\ store'[CertFiles(idx)[1]][1].der.cn = AllKubeCerts[idx].commonName
                        /\ store'[CertFiles(idx)[1]][1].der.signer = AuthorityOf(idx).cert.pub)
              /\ ~OverWrite => (pc' = "panic" /\ store' = store))]_vars

C16_Witness ==
    /\ pc = "certs" /\ OverWrite /\ ~ForceRegen /\ ~faulted /\ run = 1 /\ idx > 4
    /\ ParentOf(idx - 1) # EmptyStr
    /\ AllKubeCerts[idx - 1].failed = "cert not emitted according to definition"
    /\ AllKubeCerts[idx - 1].outcome = "WRITTEN"
    /\ AuthorityOf(idx - 1).outcome = "OK"
    /\ storeAtStart[CertFiles(idx - 1)[1]][1].der.cn = Str("renamed")
    /\ storeAtStart[CertFiles(idx - 1)[1]][1].der.signer = AuthorityOf(idx - 1).cert.pub
    /\ store[CertFiles(idx - 1)[1]][1].der.cn = AllKubeCerts[idx - 1].commonName

\* the two files of authority descriptor i are stored and parse, and the
\* certificate is not self-signed by the stored key: its signature does not
\* verify with the public key it binds, or the stored private key is not the
\* one of that public key
NotSelfSigned(i) ==
    /\ ParentOf(i) = EmptyStr
    /\ CrtFile(AllKubeCerts[i].readPath) \in DOMAIN store
    /\ KeyFile(AllKubeCerts[i].readPath) \in DOMAIN store
    /\ ~StoredPair(i).err
    /\ \/ StoredPair(i).crt.signer # StoredPair(i).crt.pub
       \/ PublicKey(StoredPair(i).key) # StoredPair(i).crt.pub

\* C17: the iteration of CheckCreateCerts on an authority whose stored
\* certificate is not self-signed by its stored key gives it the reason
\* "error verifying cert signature" and does not keep it.
C17_AuthorityKeyChecked ==
    [][(InCerts /\ ~ForceRegen /\ NotSelfSigned(idx))
          => (/\ AllKubeCerts'[idx].failed = "error verifying cert signature"
              /\ AllKubeCerts'[idx].outcome # "OK")]_vars

\* C18: every leaf certificate this process issued carries the extended key
\* usages its template declares, and the file written for it holds that
\* certificate.
C18_LeafUsages ==
    \A i \in 1..Len(AllKubeCerts) :
        (ParentOf(i) # EmptyStr /\ AllKubeCerts[i].outcome = "WRITTEN")
            => /\ AllKubeCerts[i].cert.usages = TemplateOf(i).usages
               /\ AllKubeCerts[i].certPEM = EncodeCertPEM(AllKubeCerts[i].cert)

\* this step is a regeneration attempt of CheckCreateCerts in which no
\* private key was generated
CertKeyGenFailed ==
    /\ InCerts
    /\ genCalls' = Append(genCalls, idx)
    /\ AllKubeCerts'[idx].key = NilKey

\* this step is a regeneration attempt of CheckCreateKeys in which no
\* private key was generated
SaKeyGenFailed ==
    /\ pc = "keys"
    /\ MustRegen(CheckedKey.failed, ForceRegen, OverWrite)
    /\ AllKubeKeys'[1].key = NilKey

\* C19: a regeneration attempt in which the generation of the private key
\* fails, for a certificate or for the signing key pair, ends the process;
\* nothing is written, the descriptor is not reported WRITTEN and no changed
\* flag is set.
C19_KeyGenFailureAborts ==
    [][/\ CertKeyGenFailed
          => (/\ pc' = "fatal"
              /\ store' = store /\ wlog' = wlog
              /\ AllKubeCerts'[idx].outcome # "WRITTEN"
              /\ certsChanged' = certsChanged /\ keysChanged' = keysChanged)
       /\ SaKeyGenFailed
          => (/\ pc' = "fatal"
              /\ store' = store /\ wlog' = wlog
              /\ AllKubeKeys'[1].outcome # "WRITTEN"
              /\ certsChanged' = certsChanged /\ keysChanged' = keysChanged)]_vars

\* the paths global/<path>.pub and global/<path>.key of the signing key pair
SaPub == <<GlobalPath>> \o KubeKeyTemplates[1].path \o <<".pub">>
SaPriv == <<GlobalPath>> \o KubeKeyTemplates[1].path \o <<".key">>

\* the storage st holds both files of the signing key pair, the private key
\* parses and the content of the .pub file is the encoding of its public key
SaConsistent(st) ==
    /\ SaPub \in DOMAIN st /\ SaPriv \in DOMAIN st
    /\ ~ParsePrivateKeyPEM(st[SaPriv]).err
    /\ st[SaPub] = EncodePublicKeyPEM(PublicKey(ParsePrivateKeyPEM(st[SaPriv]).key)).pem

\* C20: with force off, CheckCreateKeys keeps a stored pair whose .pub file
\* is the public key of the stored private key: it reports OK, writes nothing
\* and leaves kubekeys.Changed as it is.  A pair that is missing, does not
\* parse or does not match is, with overwrite permitted and no failure of key
\* generation or storage, generated anew: global/<path>.pub and then
\* global/<path>.key are written, they hold a matching pair, the pair is
\* reported WRITTEN and kubekeys.Changed is set.  Without overwrite the
\* process panics and writes nothing.
C20_KeyPairProtocol ==
    [][(pc = "keys" /\ ~ForceRegen)
          => IF SaConsistent(store)
             THEN /\ AllKubeKeys'[1].outcome = "OK"
                  /\ store' = store /\ wlog' = wlog
                  /\ keysChanged' = keysChanged
             ELSE /\ AllKubeKeys'[1].failed # ""
                  /\ (OverWrite /\ ~faulted')
                        => (/\ wlog' = wlog \o <<SaPub, SaPriv>>
                            /\ SaConsistent(store')
                            /\ Read(store', SaPriv) # Read(store, SaPriv)
                            /\ \A f \in DOMAIN store \ {SaPub, SaPriv} : store'[f] = store[f]
                            /\ AllKubeKeys'[1].outcome = "WRITTEN"
                            /\ keysChanged')
                  /\ ~OverWrite => (pc' = "panic" /\ store' = store /\ wlog' = wlog)]_vars

C20_Witness ==
    /\ pc = "report" /\ OverWrite /\ ~ForceRegen /\ ~faulted /\ ~resolveErr
    /\ AllKubeKeys[1].failed = "error public and private keys do not match"
    /\ AllKubeKeys[1].outcome = "WRITTEN"
    /\ SaPub \in DOMAIN storeAtStart /\ SaPriv \in DOMAIN storeAtStart
    /\ ~SaConsistent(storeAtStart)
    /\ SaConsistent(store)
    /\ keysChanged /\ ~certsChanged

\* this is the first process over a storage that holds nothing, with
\* overwrite permitted and force off
FirstRun == run = 1 /\ storeAtStart = <<>> /\ OverWrite /\ ~ForceRegen

\* C21: in a first process over an empty storage with overwrite permitted no
\* failed read ends the process: it does not panic, and it ends early only
\* when a key generation or a write failed.  Every descriptor the loop has
\* passed was marked "error loading certificate" and reported WRITTEN; when
\* main has printed its report the storage holds the .crt and the .key file
\* of every descriptor and, no key generation or write having failed, the
\* report is GLOBAL_CHANGED TRUE.
C21_FirstRunGenerates ==
    FirstRun =>
        /\ pc # "panic"
        /\ ~faulted => pc # "fatal"
        /\ \A j \in 1..(idx - 1) :
               /\ AllKubeCerts[j].failed = "error loading certificate"
               /\ AllKubeCerts[j].outcome = "WRITTEN"
        /\ pc = "done" =>
               /\ ~faulted => reported = "TRUE"
               /\ \A j \in 1..Len(AllKubeCerts) :
                      /\ CertFiles(j)[1] \in DOMAIN store
                      /\ CertFiles(j)[2] \in DOMAIN store

\* the full path StoreFile.Write is called for in input
FullPath == input.s.RootPath \o input.filePath

\* a file stands where a directory of the full path is to be, or a directory
\* where the file is to be
Blocked ==
    \/ \E q \in Prefixes(FullPath, Len(FullPath) - 1) : q \in DOMAIN input.fs.files
    \/ FullPath \in input.fs.dirs

\* C22: with MakeRoot and MakeDirs set, no system call failing and nothing in
\* the way, StoreFile.Write returns no error, the root and every directory
\* down to the file exist afterwards, the file holds the content given and
\* every other file and directory is as before.  checkMakeDir on a directory
\* that does not exist, with makeIt false, returns an error and leaves the
\* file system as it is; a Write that meets this case at the root or at the
\* directory of the file fails and leaves every file as it is.
C22_DirectoryPolicy ==
    (input.fn = "Write" /\ output # <<>>) =>
        /\ (input.s.MakeRoot /\ input.s.MakeDirs /\ input.env.mkdirOk
               /\ input.env.writeOk /\ ~Blocked)
              => /\ ~output[1].err /\ ~output[1].fatal
                 /\ output[1].fs.dirs
                        = input.fs.dirs \cup Prefixes(FullPath, Len(FullPath) - 1)
                 /\ output[1].fs.files = (FullPath :> input.content) @@ input.fs.files
                 /\ output[1].fs.files[FullPath] = input.content
        /\ ~Stat(input.fs, Dir(FullPath))
              => /\ output[2].err /\ ~output[2].fatal
                 /\ output[2].fs = input.fs
        /\ (\/ ~input.s.MakeRoot /\ ~Stat(input.fs, input.s.RootPath)
            \/ /\ ~input.s.MakeDirs /\ ~Stat(input.fs, Dir(FullPath))
               /\ Len(input.filePath) > 1)
              => /\ output[1].err \/ output[1].fatal
                 /\ output[1].fs.files = input.fs.files
                 /\ (~input.s.MakeRoot /\ ~Stat(input.fs, input.s.RootPath))
                        => (output[1].err /\ output[1].fs = input.fs)

C22_Witness ==
    /\ input.fn = "Write" /\ output # <<>>
    /\ input.s.MakeRoot /\ input.s.MakeDirs
    /\ input.fs = [dirs |-> {}, files |-> <<>>]
    /\ Len(input.filePath) = 3
    /\ ~output[1].err
    /\ output[1].fs.dirs = {<<"out">>, <<"out", "d">>, <<"out", "d", "d">>}
    /\ output[1].fs.files = (<<"out", "d", "d", "f">> :> "new")
    /\ output[2].err

\* the paths written so far are the two files of the descriptors before idx,
\* in catalog order, certificate before key
WrittenInOrder ==
    /\ Len(wlog) = 2 * (idx - 1)
    /\ \A j \in 1..(idx - 1) :
           wlog[2 * j - 1] = CertFiles(j)[1] /\ wlog[2 * j] = CertFiles(j)[2]

\* C23: under force, whatever OverWrite says, an iteration of
\* CheckCreateCerts reads nothing from the storage, marks the descriptor
\* "ForceRegen" and calls the generator; unless the generation or a write
\* fails it writes the two files of the descriptor after those of every
\* descriptor before it and reports it WRITTEN, and the certificate of a leaf
\* is signed by its parent authority, itself marked "ForceRegen" and issued
\* earlier by this process.
C23_ForceRegenerates ==
    [][(InCerts /\ ForceRegen)
          => (/\ rlog = <<>> /\ rlog' = <<>>
              /\ WrittenInOrder
              /\ AllKubeCerts'[idx].failed = "ForceRegen"
              /\ genCalls' = Append(genCalls, idx)
              /\ pc' # "fatal"
                    => (/\ AllKubeCerts'[idx].outcome = "WRITTEN"
                        /\ wlog' = wlog \o CertFiles(idx)
                        /\ store'[CertFiles(idx)[1]] = EncodeCertPEM(AllKubeCerts'[idx].cert)
                        /\ AllKubeCerts'[idx].key = PrivateKey(run, idx)
                        /\ ParentOf(idx) # EmptyStr
                              => (/\ AuthorityOf(idx).failed = "ForceRegen"
                                  /\ AuthorityOf(idx).outcome = "WRITTEN"
                                  /\ AuthorityOf(idx).key.priv[1] = run
                                  /\ AllKubeCerts'[idx].cert.signer
                                         = PublicKey(AuthorityOf(idx).key)
                                  /\ AllKubeCerts'[idx].cert.signer
                                         = AuthorityOf(idx).cert.pub)))]_vars

C23_Witness ==
    /\ pc = "keys" /\ ForceRegen /\ ~OverWrite /\ ~resolveErr
    /\ storeAtStart # <<>>
    /\ rlog = <<>>
    /\ Len(AllKubeCerts) > 4
    /\ Len(wlog) = 2 * Len(AllKubeCerts)
    /\ \A j \in 1..Len(AllKubeCerts) :
           /\ AllKubeCerts[j].outcome = "WRITTEN"
           /\ store[CertFiles(j)[1]] # storeAtStart[CertFiles(j)[1]]

\* the certificate stored for descriptor i passes the signature step: an
\* authority carries a signature that verifies with its own public key, a
\* leaf one that verifies with the public key of the authority this process
\* holds for its parent
SignatureStepPasses(i) ==
    IF ParentOf(i) = EmptyStr
    THEN StoredPair(i).crt.signer = StoredPair(i).crt.pub
    ELSE /\ AuthorityOf(i).cert # NilCert
         /\ AuthorityOf(i).cert.isCA
         /\ StoredPair(i).crt.signer = AuthorityOf(i).cert.pub

\* the reason of the first step that fails on what the storage holds for
\* descriptor i, in the order read certificate, read key, parse, signature,
\* conformance; "" when none fails
FirstFailure(i) ==
    IF CrtFile(AllKubeCerts[i].readPath) \notin DOMAIN store
    THEN "error loading certificate"
    ELSE IF KeyFile(AllKubeCerts[i].readPath) \notin DOMAIN store
    THEN "error loading certificate"
    ELSE IF StoredPair(i).err
    THEN "error loading cert or key from PEM format"
    ELSE IF ~SignatureStepPasses(i)
    THEN IF ParentOf(i) = EmptyStr THEN "error verifying cert signature"
         ELSE "cert not emitted by parent CA"
    ELSE IF cmpWithDefinition(StoredPair(i).crt, AllKubeCerts[i])
    THEN "cert not emitted according to definition"
    ELSE ""

\* the reads that lead to FirstFailure(i): the key is read only after the
\* certificate was
ReadsOf(i) ==
    IF CrtFile(AllKubeCerts[i].readPath) \notin DOMAIN store
    THEN <<CrtFile(AllKubeCerts[i].readPath)>>
    ELSE <<CrtFile(AllKubeCerts[i].readPath), KeyFile(AllKubeCerts[i].readPath)>>

ShortLived(i) ==
    /\ CrtFile(AllKubeCerts[i].readPath) \in DOMAIN store
    /\ KeyFile(AllKubeCerts[i].readPath) \in DOMAIN store
    /\ ~StoredPair(i).err
    /\ StoredPair(i).crt.daysLeft < CheckCertMinValid

\* C25: with force off, the iteration of CheckCreateCerts on a stored
\* certificate that is expired or has less than CheckCertMinValid (10 days)
\* left marks the descriptor failed and does not keep it; with overwrite
\* permitted it calls the generator.
C25_ExpiryChecked ==
    [][(InCerts /\ ~ForceRegen /\ ShortLived(idx))
          => (/\ AllKubeCerts'[idx].failed # ""
              /\ AllKubeCerts'[idx].outcome # "OK"
              /\ OverWrite => genCalls' = Append(genCalls, idx))]_vars

\* C26: with overwrite permitted, once the loop of CheckCreateCerts has
\* passed a leaf whose parent authority this process reported WRITTEN, the
\* leaf is reported WRITTEN too and its certificate carries the signature of
\* the key this process generated for the authority; a leaf reported OK has
\* an authority that was reported OK.
C26_Cascade ==
    OverWrite =>
        \A j \in 1..(idx - 1) :
            (j <= Len(AllKubeCerts) /\ ParentOf(j) # EmptyStr
                 /\ AuthorityOf(j).outcome = "WRITTEN")
                => /\ AllKubeCerts[j].outcome = "WRITTEN"
                   /\ AuthorityOf(j).key.priv[1] = run
                   /\ AllKubeCerts[j].cert.signer = PublicKey(AuthorityOf(j).key)

\* the certificate the storage holds in the .crt file of descriptor i
StoredCert(i) == StoredPair(i).crt

\* C27: when a process with overwrite permitted has run to its end, the
\* storage holds for every leaf descriptor a certificate whose signature
\* verifies with the public key of the certificate the storage holds for
\* its parent authority, and that one is the certificate of an authority.
C27_ChainConsistent ==
    (pc = "done" /\ OverWrite) =>
        \A i \in 1..Len(AllKubeCerts) :
            ParentOf(i) # EmptyStr =>
                /\ ~StoredPair(i).err
                /\ ~StoredPair(ParentIdx(KubeCAMap, ParentOf(i))).err
                /\ StoredCert(ParentIdx(KubeCAMap, ParentOf(i))).isCA
                /\ StoredCert(i).signer = StoredCert(ParentIdx(KubeCAMap, ParentOf(i))).pub

\* the files at the location the WriteDriver writes to
WriteLocation == IF writeStore.same THEN store ELSE writeStore.files

\* C28: when a process has run to its end without abort, the write location
\* holds the .crt and the .key file of every descriptor at its write path,
\* also when the read location is another one and descriptors were kept
\* because they were found valid there.
C28_WriteLocationComplete ==
    pc = "done" =>
        \A i \in 1..Len(AllKubeCerts) :
            /\ CrtFile(AllKubeCerts[i].writePath) \in DOMAIN WriteLocation
            /\ KeyFile(AllKubeCerts[i].writePath) \in DOMAIN WriteLocation

\* C29: an iteration of CheckCreateCerts in which the generator was called
\* and writeCerts did not make both writes leaves the certificate file and
\* the key file of the descriptor as they were before the attempt.
C29_PairAtomic ==
    [][(InCerts /\ genCalls' # genCalls /\ AllKubeCerts'[idx].outcome # "WRITTEN")
          => (/\ Read(store', CertFiles(idx)[1]) = Read(store, CertFiles(idx)[1])
              /\ Read(store', CertFiles(idx)[2]) = Read(store, CertFiles(idx)[2]))]_vars

\* the descriptors rendered from template t
CertsOfTemplate(t) == {i \in 1..Len(AllKubeCerts) : AllKubeCerts[i].templateIdx = t}

\* C30: after RenderCertTemplates every authority template has one
\* descriptor and KubeCAMap holds its index under the template's path; the
\* parent of every leaf template, those appended by getUsers included, is a
\* key of KubeCAMap, and the descriptor found under it comes from the
\* authority template of that path.
C30_AuthorityIndex ==
    (pc # "start" /\ ~resolveErr) =>
        \A t \in 1..Len(kubeCertTemplates) :
            IF kubeCertTemplates[t].parent = EmptyStr
            THEN /\ kubeCertTemplates[t].path \in DOMAIN KubeCAMap
                 /\ CertsOfTemplate(t) = {KubeCAMap[kubeCertTemplates[t].path]}
            ELSE /\ kubeCertTemplates[t].parent \in DOMAIN KubeCAMap
                 /\ KubeCAMap[kubeCertTemplates[t].parent] \in 1..Len(AllKubeCerts)
                 /\ kubeCertTemplates[AllKubeCerts[KubeCAMap[kubeCertTemplates[t].parent]]
                                          .templateIdx].path = kubeCertTemplates[t].parent
                 /\ kubeCertTemplates[AllKubeCerts[KubeCAMap[kubeCertTemplates[t].parent]]
                                          .templateIdx].parent = EmptyStr

C30_Witness ==
    /\ pc = "certs" /\ idx = 1 /\ ~resolveErr
    /\ Len(kubeCertTemplates) = Len(StaticTemplates) + 1
    /\ kubeCertTemplates[Len(kubeCertTemplates)].path = UsersPath \o <<"bob">>
    /\ kubeCertTemplates[Len(kubeCertTemplates)].parent = CaPath
    /\ KubeCAMap = (CaPath :> 1) @@ (EtcdCaPath :> 2) @@ (FrontProxyCaPath :> 3)
    /\ Len(AllKubeCerts) > 8
====
